---- MODULE Spec2Model ----
(***************************************************************************)
(* A model of the vocabulary-learning frontend: the API client             *)
(* (src/lib/api.ts), the word search screen (WordInput), the root          *)
(* controller (App) and the review sessions.  Every fetch is one entry of  *)
(* `net`; the step that settles a fetch runs the whole promise             *)
(* continuation chain up to the next fetch, as the single-threaded event   *)
(* loop does.                                                              *)
(***************************************************************************)
EXTENDS Integers, Sequences, FiniteSets, TLC

VARIABLES
    cookie,      \* the auth_token entry of document.cookie
    wordCache,   \* module-level Map of api.ts: cache key -> entry
    now,         \* Date.now(), in milliseconds
    ticks,       \* number of clock advances so far
    net,         \* fetches in flight, each with the continuation that awaits it
    calls,       \* log of the getEnhancedWordInfo calls of the API client
    last,        \* the settlement most recently delivered to a caller of the client
    wordInput,   \* state of the WordInput component
    localStorage,\* the guest_api_count item of window.localStorage
    wiEvent,     \* what the WordInput handler that ran last did
    app,         \* state of the root controller App
    history,     \* the session history of the browser: entries and current index
    toasts,      \* ToastProvider: the visible toasts
    timers,      \* ToastProvider: timers.current, the ids with a stored timer handle
    timeouts,    \* the browser's pending setTimeout callbacks of the toasts: time left
    appEvent,    \* what the App step that ran last did
    review,      \* the review session and the showReviewSession flag of its parent
    reveals,     \* pending setTimeout(handleShowAnswer) timers of the review session
    rvLog,       \* what has happened in the review session mounted last
    rvEvent,     \* what the review step that ran last did
    saveDialog,  \* SaveToCollectionDialog: its props, state and pending refresh timers
    backend      \* the collections and saved cards the backend holds for the user

apiVars == <<cookie, wordCache, now, ticks, net, calls, last>>

wiVars == <<wordInput, localStorage, wiEvent>>

appRest == <<history, toasts, timers, timeouts, appEvent>>

rvVars == <<review, reveals, rvLog, rvEvent>>

dlgVars == <<saveDialog, backend>>

vars == <<cookie, wordCache, now, ticks, net, calls, last, wordInput, localStorage, wiEvent,
          app, history, toasts, timers, timeouts, appEvent,
          review, reveals, rvLog, rvEvent, saveDialog, backend>>

-----------------------------------------------------------------------------
(* Bounds of the model *)

MaxTicks == 2
MaxCalls == 2
MaxInFlight == 2

-----------------------------------------------------------------------------
(* Strings are sequences of characters, so that trim and toLowerCase are   *)
(* computed.                                                               *)

LowerChar(c) == IF c = "A" THEN "a" ELSE IF c = "B" THEN "b" ELSE c

RECURSIVE ToLowerCase(_)
ToLowerCase(s) ==
    IF s = <<>> THEN <<>> ELSE <<LowerChar(Head(s))>> \o ToLowerCase(Tail(s))

CACHE_DURATION == 1000 * 60 * 30

CacheKey(w) == <<"enhanced_">> \o ToLowerCase(w)

\* String.prototype.trim
RECURSIVE TrimStart(_)
TrimStart(s) == IF s # <<>> /\ Head(s) = " " THEN TrimStart(Tail(s)) ELSE s

RECURSIVE TrimEnd(_)
TrimEnd(s) ==
    IF s # <<>> /\ s[Len(s)] = " " THEN TrimEnd(SubSeq(s, 1, Len(s) - 1)) ELSE s

Trim(s) == TrimEnd(TrimStart(s))

\* words the API client is called with
ApiWords == {<<"a">>, <<"A">>}

\* what the user can type into the search box, and the suggestion buttons
TypedWords == {<<>>, <<" ">>, <<"a">>, <<" ", "A">>}

suggestedWords == {<<"b">>}

CacheKeys == {CacheKey(Trim(w)) : w \in ApiWords \cup TypedWords \cup suggestedWords}

NoEntry == [present |-> FALSE, data |-> "none", timestamp |-> 0]

Entry(d, t) == [present |-> TRUE, data |-> d, timestamp |-> t]

-----------------------------------------------------------------------------
(* Cookie and token management *)

NoCookie == "<absent>"

\* setCookie: document.cookie = `auth_token=${value}; ...`
setCookie(value) == value

\* deleteCookie: the entry is written with an expiry date in the past
deleteCookie == NoCookie

\* getCookie: parts.pop()?.split(";").shift() || null
getCookie(c) == IF c = NoCookie \/ c = "" THEN "null" ELSE c

getToken(c) == getCookie(c)

isAuthenticated(c) == getToken(c) # "null"

-----------------------------------------------------------------------------
(* What a fetch can produce *)

Payloads == {"p1", "p2"}

EmptyObject == "{}"

StatusText(s) ==
    CASE s = "404" -> "Not Found"
      [] s = "500" -> "Internal Server Error"
      [] OTHER -> ""

\* body: "json" (a JSON object, content-type application/json), "text" (no
\* JSON content-type, not parseable), "invalid" (JSON content-type, body not
\* parseable)
\* error: the `error` field of a JSON body, "" when there is none
HttpResponse(s, b, e, d, t) ==
    [kind |-> "http", status |-> s, body |-> b, error |-> e, data |-> d, token |-> t]

FetchThrows == [kind |-> "throw", status |-> "", body |-> "", error |-> "",
                data |-> "none", token |-> ""]

ErrorResponses ==
    {HttpResponse("401", "json", "Unauthorized", "none", ""),
     HttpResponse("429", "json", "Too many requests", "none", ""),
     HttpResponse("404", "json", "Word not found in dictionary", "none", ""),
     HttpResponse("500", "json", "", "none", ""),
     HttpResponse("500", "text", "", "none", "")}

DataResponses ==
    {HttpResponse("200", "json", "", d, "") : d \in Payloads}
        \cup {HttpResponse("200", "text", "", "none", ""),
              HttpResponse("200", "invalid", "", "none", "")}

AuthResponses == {HttpResponse("200", "json", "", "auth", t) : t \in {"", "t1"}}

Msg_AuthRequired == <<"Authentication required">>
Msg_Quota == <<"AI_SERVICE_QUOTA_EXCEEDED">>
Msg_Network == <<"Network error">>
Msg_FailedToFetch == <<"Failed to fetch">>
Msg_SyntaxError == <<"SyntaxError">>
Msg_Http(s) == <<"HTTP ", s, ": ", StatusText(s)>>
Msg_HttpShort(s) == <<"HTTP ", s>>

Resolve(d, t) == [ok |-> TRUE, data |-> d, token |-> t, message |-> <<>>, removeToken |-> FALSE]
Reject(m, rm) == [ok |-> FALSE, data |-> "none", token |-> "", message |-> m, removeToken |-> rm]

\* the inner try/catch of request (api.ts 166-171): the Error thrown inside
\* the try block is caught by its own catch clause
ParseErrorResponse(resp) ==
    LET thrownInTry ==
            IF resp.body = "json"
            THEN IF resp.error # "" THEN <<resp.error>> ELSE Msg_HttpShort(resp.status)
            ELSE Msg_SyntaxError
    IN  Msg_Http(resp.status)

\* request without the removeToken() of line 156
request_KeepsToken(resp) ==
    IF resp.kind = "throw"
    THEN Reject(Msg_FailedToFetch, FALSE)
    ELSE IF resp.status # "200"
         THEN IF resp.status = "401" THEN Reject(Msg_AuthRequired, FALSE)
              ELSE IF resp.status = "429" THEN Reject(Msg_Quota, FALSE)
              ELSE Reject(ParseErrorResponse(resp), FALSE)
         ELSE IF resp.body = "json" THEN Resolve(resp.data, resp.token)
              ELSE IF resp.body = "invalid"
                   THEN Reject(Msg_SyntaxError, FALSE)
                   ELSE Resolve(EmptyObject, "")

\* ApiService.request from the settlement of its fetch on
request(resp) ==
    IF resp.kind = "throw"
    THEN \* fetch rejects with a TypeError, which is an instance of Error
         Reject(Msg_FailedToFetch, FALSE)
    ELSE IF resp.status # "200"
         THEN IF resp.status = "401" THEN Reject(Msg_AuthRequired, TRUE)
              ELSE IF resp.status = "429" THEN Reject(Msg_Quota, FALSE)
              ELSE Reject(ParseErrorResponse(resp), FALSE)
         ELSE IF resp.body = "json" THEN Resolve(resp.data, resp.token)
              ELSE IF resp.body = "invalid"
                   THEN \* response.json() rejects with a SyntaxError
                        Reject(Msg_SyntaxError, FALSE)
                   ELSE Resolve(EmptyObject, "")

-----------------------------------------------------------------------------
(* A fetch in flight and the continuation that awaits it *)

Closure(w, auth, count, meaning, user, from) ==
    [word |-> w, isAuthenticated |-> auth, guestApiCount |-> count, meaning |-> meaning,
     user |-> user, from |-> from]

NoClosure == Closure(<<>>, FALSE, 0, "", "null", "")

Fetch(ow, ep, w, c, k, tok, cl) ==
    [owner |-> ow, endpoint |-> ep, word |-> w, cached |-> c, call |-> k, token |-> tok,
     closure |-> cl]

RemoveAt(s, i) == SubSeq(s, 1, i - 1) \o SubSeq(s, i + 1, Len(s))

\* the freshness test with <= in place of <
IsFresh_Inclusive(cached, t) == cached.present /\ t - cached.timestamp <= CACHE_DURATION

\* getEnhancedWordInfo, line 200: is the entry read at the start of the call fresh?
IsFresh(cached, t) == cached.present /\ t - cached.timestamp < CACHE_DURATION

\* getEnhancedWordInfo from the settlement of its request on (lines 205-215)
EnhancedSettle(cached, res) ==
    IF res.ok THEN res
    ELSE IF res.message = Msg_Quota /\ cached.present
         THEN Resolve(cached.data, "")
         ELSE res

\* the cache after the settlement: only a resolved request stores an entry
CacheAfter(cache, w, res, t) ==
    IF res.ok THEN [cache EXCEPT ![CacheKey(w)] = Entry(res.data, t)] ELSE cache

\* the cookie after a request settled (line 156)
CookieAfterRequest(c, res) == IF res.removeToken THEN deleteCookie ELSE c

\* login / register: store the token of a successful response (lines 393, 407)
CookieAfterAuth(c, res) ==
    IF res.ok /\ res.token # "" THEN setCookie(res.token) ELSE CookieAfterRequest(c, res)

-----------------------------------------------------------------------------
(* The API client driven directly by a caller *)

NoResponse == [kind |-> "none", status |-> "", body |-> "", error |-> "",
               data |-> "none", token |-> ""]

\* what a caller of the client has just received, with the response that
\* caused it, the cookie before the settlement and the cache entry of the
\* word at the moment of the settlement
Delivered(op, resp, res, entry, before) ==
    [op |-> op, resp |-> resp, ok |-> res.ok, data |-> res.data,
     message |-> res.message, entryAtSettle |-> entry, cookieBefore |-> before]

NoDelivery == Delivered("none", NoResponse, Resolve("none", ""), NoEntry, NoCookie)

\* the age of the entry a call finds in the cache
EntryAge(cached, t) ==
    IF ~cached.present THEN "none"
    ELSE IF t - cached.timestamp >= 30 * 60 * 1000 THEN "stale" ELSE "fresh"

CallLog(w, t, cached, issued, done, ok, d) ==
    [word |-> w, start |-> t, found |-> EntryAge(cached, t), foundData |-> cached.data,
     issued |-> issued, done |-> done, ok |-> ok, data |-> d]

\* a caller invokes getEnhancedWordInfo(w)
ApiGetEnhancedWordInfo(w) ==
    /\ Len(calls) < MaxCalls
    /\ LET cached == wordCache[CacheKey(w)]
           k == Len(calls) + 1
       IN  IF IsFresh(cached, now)
           THEN /\ calls' = Append(calls, CallLog(w, now, cached, FALSE, TRUE, TRUE, cached.data))
                /\ last' = Delivered("enhanced", NoResponse, Resolve(cached.data, ""),
                                     cached, cookie)
                /\ net' = net
           ELSE /\ Len(net) < MaxInFlight
                /\ calls' = Append(calls, CallLog(w, now, cached, TRUE, FALSE, FALSE, "none"))
                /\ net' = Append(net, Fetch("client", "enhanced", w, cached, k, getToken(cookie), NoClosure))
                /\ last' = last
    /\ UNCHANGED <<dlgVars, cookie, wordCache, now, ticks, wiVars, rvVars, app, appRest>>

\* a caller invokes login, register or getProfile
ApiCall(ep) ==
    /\ Len(net) < MaxInFlight
    /\ net' = Append(net, Fetch("client", ep, <<>>, NoEntry, 0, getToken(cookie), NoClosure))
    /\ UNCHANGED <<dlgVars, cookie, wordCache, now, ticks, calls, last, wiVars, rvVars, app, appRest>>

\* a caller invokes logout
ApiLogout ==
    /\ cookie' = deleteCookie
    /\ UNCHANGED <<dlgVars, wordCache, now, ticks, net, calls, last, wiVars, rvVars, app, appRest>>

\* the fetch of an enhanced lookup settles
ApiSettleEnhanced(i, resp) ==
    /\ net[i].owner = "client"
    /\ net[i].endpoint = "enhanced"
    /\ LET r == net[i]
           res == request(resp)
           out == EnhancedSettle(r.cached, res)
       IN  /\ cookie' = CookieAfterRequest(cookie, res)
           /\ wordCache' = CacheAfter(wordCache, r.word, res, now)
           /\ calls' = [calls EXCEPT ![r.call] =
                            [@ EXCEPT !.done = TRUE, !.ok = out.ok, !.data = out.data]]
           /\ last' = Delivered("enhanced", resp, out, wordCache[CacheKey(r.word)], cookie)
    /\ net' = RemoveAt(net, i)
    /\ UNCHANGED <<dlgVars, now, ticks, wiVars, rvVars, app, appRest>>

\* the fetch of login or register settles
ApiSettleAuth(i, resp) ==
    /\ net[i].owner = "client"
    /\ net[i].endpoint \in {"login", "register"}
    /\ LET res == request(resp)
       IN  /\ cookie' = CookieAfterAuth(cookie, res)
           /\ last' = Delivered(net[i].endpoint, resp, res, NoEntry, cookie)
    /\ net' = RemoveAt(net, i)
    /\ UNCHANGED <<dlgVars, wordCache, now, ticks, calls, wiVars, rvVars, app, appRest>>

\* the fetch of getProfile settles
ApiSettleProfile(i, resp) ==
    /\ net[i].owner = "client"
    /\ net[i].endpoint = "profile"
    /\ LET res == request(resp)
       IN  /\ cookie' = CookieAfterRequest(cookie, res)
           /\ last' = Delivered("profile", resp, res, NoEntry, cookie)
    /\ net' = RemoveAt(net, i)
    /\ UNCHANGED <<dlgVars, wordCache, now, ticks, calls, wiVars, rvVars, app, appRest>>

\* time passes
TimeSteps == {1, CACHE_DURATION - 1}

Tick(d) ==
    /\ ticks < MaxTicks
    /\ now' = now + d
    /\ ticks' = ticks + 1
    /\ UNCHANGED <<dlgVars, cookie, wordCache, net, calls, last, wiVars, rvVars, app, appRest>>

-----------------------------------------------------------------------------
(* JSON payloads of the word endpoints *)

\* the fields of the object a payload parses to
Json(d) ==
    CASE d = "p1" -> [word |-> "w1", meanings |-> "m1", phonetic |-> "ph1", analysis |-> "an1"]
      [] d = "p2" -> [word |-> "w2", meanings |-> "m2", phonetic |-> "ph2", analysis |-> "an2"]
      [] OTHER -> [word |-> "undefined", meanings |-> "undefined",
                   phonetic |-> "undefined", analysis |-> "undefined"]

WordData(j) ==
    [isNull |-> FALSE, word |-> j.word, meanings |-> j.meanings, phonetic |-> j.phonetic,
     analysis |-> j.analysis]

NullWordData ==
    [isNull |-> TRUE, word |-> "", meanings |-> "", phonetic |-> "", analysis |-> ""]

\* the object handleSubmit builds from the plain-meanings response (lines 83-87)
BasicWordData(j) ==
    [isNull |-> FALSE, word |-> j.word, meanings |-> j.meanings, phonetic |-> "",
     analysis |-> "undefined"]

-----------------------------------------------------------------------------
(* The word search screen: WordInput *)

GUEST_API_LIMIT == 3

Err_EnterWord == "Please enter a word"
Err_NotFound == "Word not found. Please try another word."

\* Number.prototype.toString and parseInt(_, 10) on the counts that occur
DigitStrings == <<"0", "1", "2", "3", "4">>

NumToString(n) == DigitStrings[n + 1]

parseInt(str) == CHOOSE n \in 0..(Len(DigitStrings) - 1) : DigitStrings[n + 1] = str

\* the mount effect (lines 36-41)
MountGuestApiCount(item) == IF item # "null" THEN parseInt(item) ELSE 0

\* useState initial values (lines 27-34) and the mount effect; `instance`
\* tells the mounted component from the ones unmounted before it
WordInputMounted(item) ==
    [word |-> <<>>, loading |-> FALSE, error |-> "", wordData |-> NullWordData,
     selectedMeaning |-> "", customMeaning |-> <<>>, useCustomMeaning |-> FALSE,
     guestApiCount |-> MountGuestApiCount(item), instance |-> 0]

\* how often the search screen is taken off the page and mounted again
MaxMounts == 1

WiEvent(op, phase, w, msg, resp) ==
    [op |-> op, phase |-> phase, lookup |-> w, message |-> msg, resp |-> resp]

NoWiEvent == WiEvent("none", "", <<>>, <<>>, NoResponse)

\* the values handleSubmit closes over
SubmitClosure(wi, auth) ==
    [word |-> wi.word, isAuthenticated |-> auth, guestApiCount |-> wi.guestApiCount,
     meaning |-> "", user |-> "null", from |-> "handleSubmit", instance |-> wi.instance]

\* the state setters of a component that has been unmounted do nothing
SetState(wi, cl, next) == IF cl.instance = wi.instance THEN next ELSE wi

\* lines 63-68
SubmitStarted(wi) ==
    [wi EXCEPT !.loading = TRUE, !.error = "", !.wordData = NullWordData,
               !.selectedMeaning = "", !.customMeaning = <<>>, !.useCustomMeaning = FALSE]

\* incrementGuestApiCount (lines 43-47), for guests only (lines 75, 89)
GuestCountAfter(wi, cl) ==
    IF ~cl.isAuthenticated THEN cl.guestApiCount + 1 ELSE wi.guestApiCount

StorageAfter(item, cl) ==
    IF ~cl.isAuthenticated THEN NumToString(cl.guestApiCount + 1) ELSE item

\* lines 72-77 and 99
SubmitSucceeded(wi, data, cl) ==
    [wi EXCEPT !.wordData = data, !.guestApiCount = GuestCountAfter(wi, cl),
               !.loading = FALSE]

\* the failure branches without the finally block
SubmitFailed_StaysLoading(wi) == [wi EXCEPT !.error = Err_NotFound]

\* lines 93 / 96 and 99
SubmitFailed(wi) == [wi EXCEPT !.error = Err_NotFound, !.loading = FALSE]

\* the fallback request made for the word currently in the search box
FallbackWord_Current(wi, cl) == Trim(wi.word)

\* line 82: the word the fallback request is made for
FallbackWord(wi, cl) == Trim(cl.word)

\* the user types into the search box (enabled while not loading)
TypeWord(w) ==
    /\ wordInput.wordData.isNull
    /\ ~wordInput.loading
    /\ wordInput.word # w
    /\ wordInput' = [wordInput EXCEPT !.word = w]
    /\ wiEvent' = WiEvent("setWord", "", w, <<>>, NoResponse)
    /\ UNCHANGED <<dlgVars, apiVars, localStorage, app, appRest, rvVars>>

\* the user clicks a suggestion button (never disabled)
ClickSuggestedWord(w) ==
    /\ wordInput.wordData.isNull
    /\ wordInput.word # w
    /\ wordInput' = [wordInput EXCEPT !.word = w]
    /\ wiEvent' = WiEvent("setWord", "", w, <<>>, NoResponse)
    /\ UNCHANGED <<dlgVars, apiVars, localStorage, app, appRest, rvVars>>

\* the form is submitted (lines 49-71)
handleSubmit ==
    /\ wordInput.wordData.isNull
    /\ ~wordInput.loading
    /\ LET w == Trim(wordInput.word)
           cl == SubmitClosure(wordInput, app.isAuthenticated)
           cached == wordCache[CacheKey(w)]
       IN  IF w = <<>>
           THEN /\ wordInput' = [wordInput EXCEPT !.error = Err_EnterWord]
                /\ wiEvent' = WiEvent("handleSubmit", "empty", w, <<>>, NoResponse)
                /\ UNCHANGED <<net, localStorage, app, appRest, rvVars>>
           ELSE IF ~app.isAuthenticated /\ wordInput.guestApiCount >= GUEST_API_LIMIT
           THEN /\ app' = [app EXCEPT !.showAuth = TRUE]
                /\ wiEvent' = WiEvent("handleSubmit", "limit", w, <<>>, NoResponse)
                /\ UNCHANGED <<net, localStorage, wordInput>>
           ELSE IF IsFresh(cached, now)
           THEN /\ wordInput' = SubmitSucceeded(SubmitStarted(wordInput),
                                                WordData(Json(cached.data)), cl)
                /\ localStorage' = StorageAfter(localStorage, cl)
                /\ wiEvent' = WiEvent("handleSubmit", "cached", w, <<>>, NoResponse)
                /\ UNCHANGED <<net, app, appRest, rvVars>>
           ELSE /\ Len(net) < MaxInFlight
                /\ wordInput' = SubmitStarted(wordInput)
                /\ net' = Append(net, Fetch("WordInput", "enhanced", w, cached, 0,
                                            getToken(cookie), cl))
                /\ wiEvent' = WiEvent("handleSubmit", "sent", w, <<>>, NoResponse)
                /\ UNCHANGED <<localStorage, app, appRest, rvVars>>
    /\ UNCHANGED <<dlgVars, cookie, wordCache, now, ticks, calls, last, appRest, rvVars>>

\* the enhanced lookup of handleSubmit settles (lines 71-97)
SubmitLookupSettled(i, resp) ==
    /\ net[i].owner = "WordInput"
    /\ net[i].endpoint = "enhanced"
    /\ LET r == net[i]
           res == request(resp)
           out == EnhancedSettle(r.cached, res)
       IN  /\ cookie' = CookieAfterRequest(cookie, res)
           /\ wordCache' = CacheAfter(wordCache, r.word, res, now)
           /\ wiEvent' = WiEvent("handleSubmit", "lookup-settled", r.word, out.message, resp)
           /\ IF out.ok
              THEN /\ wordInput' = SetState(wordInput, r.closure,
                                        SubmitSucceeded(wordInput, WordData(Json(out.data)),
                                                        r.closure))
                   /\ localStorage' = StorageAfter(localStorage, r.closure)
                   /\ net' = RemoveAt(net, i)
              ELSE IF out.message = Msg_Quota
              THEN /\ net' = Append(RemoveAt(net, i),
                                    Fetch("WordInput", "meanings",
                                          FallbackWord(wordInput, r.closure), NoEntry, 0,
                                          getToken(cookie), r.closure))
                   /\ UNCHANGED <<wordInput, localStorage>>
              ELSE /\ wordInput' = SetState(wordInput, r.closure, SubmitFailed(wordInput))
                   /\ net' = RemoveAt(net, i)
                   /\ UNCHANGED localStorage
    /\ UNCHANGED <<dlgVars, now, ticks, calls, last, app, appRest, rvVars>>

\* the plain-meanings request of the fallback settles (lines 82-94, 99)
SubmitFallbackSettled(i, resp) ==
    /\ net[i].owner = "WordInput"
    /\ net[i].endpoint = "meanings"
    /\ LET r == net[i]
           res == request(resp)
       IN  /\ cookie' = CookieAfterRequest(cookie, res)
           /\ wiEvent' = WiEvent("handleSubmit", "fallback-settled", r.word, res.message, resp)
           /\ IF res.ok
              THEN /\ wordInput' = SetState(wordInput, r.closure,
                                        SubmitSucceeded(wordInput, BasicWordData(Json(res.data)),
                                                        r.closure))
                   /\ localStorage' = StorageAfter(localStorage, r.closure)
              ELSE /\ wordInput' = SetState(wordInput, r.closure, SubmitFailed(wordInput))
                   /\ UNCHANGED localStorage
    /\ net' = RemoveAt(net, i)
    /\ UNCHANGED <<dlgVars, wordCache, now, ticks, calls, last, app, appRest, rvVars>>

\* "Search New Word" (lines 123-128)
handleBackToSearch ==
    /\ ~wordInput.wordData.isNull
    /\ wordInput' = [wordInput EXCEPT !.wordData = NullWordData, !.selectedMeaning = "",
                                      !.customMeaning = <<>>, !.useCustomMeaning = FALSE]
    /\ wiEvent' = WiEvent("handleBackToSearch", "", <<>>, <<>>, NoResponse)
    /\ UNCHANGED <<dlgVars, apiVars, localStorage, app, appRest, rvVars>>

\* the search screen is taken off the page (the view or the step changes,
\* index.ts 454-483) and mounted again: fresh state and the mount effect
WordInputRemounted ==
    /\ wordInput.instance < MaxMounts
    /\ wordInput' = [WordInputMounted(localStorage) EXCEPT !.instance = wordInput.instance + 1]
    /\ wiEvent' = WiEvent("mount", "", <<>>, <<>>, NoResponse)
    /\ UNCHANGED <<dlgVars, apiVars, localStorage, app, appRest, rvVars>>

-----------------------------------------------------------------------------
(* The root controller: App *)

MaxHistory == 3
MaxToasts == 1

Views == {"learn", "collections", "learning"}

\* getInitialView (lines 237-242) and handlePopState (lines 277-286)
ViewOfPath(pathname) ==
    IF pathname = "/collections" THEN "collections"
    ELSE IF pathname = "/learning" THEN "learning"
    ELSE "learn"

\* pushState writing the root path for every view
PathOfView_AlwaysRoot(nextView) == "/"

\* pushState (lines 293-294)
PathOfView(nextView) ==
    IF nextView = "collections" THEN "/collections"
    ELSE IF nextView = "learning" THEN "/learning"
    ELSE "/"

pathname == history.entries[history.index]

\* window.history.pushState: forward entries are dropped
PushState(h, nextView) ==
    [entries |-> Append(SubSeq(h.entries, 1, h.index), PathOfView(nextView)),
     index |-> h.index + 1]

AppMounted(initialPath, auth, user) ==
    [view |-> ViewOfPath(initialPath), step |-> 1, word |-> "", meanings |-> "[]",
     learningCard |-> "null", loading |-> FALSE, isAuthenticated |-> auth, user |-> user,
     showAuth |-> FALSE, authLoading |-> FALSE]

AppInit(auth) == AppMounted("/", auth, IF auth THEN "u1" ELSE "null")

AppEvent(op, resolved, ok, from) ==
    [op |-> op, resolved |-> resolved, ok |-> ok, from |-> from]

NoAppEvent == AppEvent("none", FALSE, FALSE, "")

\* TOAST_TIMEOUT (toast.tsx 17)
TOAST_TIMEOUT == 4500

\* the toasts the provider shows at once when it is studied alone
MaxVisible == 3

ToastIds == 1..(MaxToasts + MaxVisible)

\* no setTimeout callback is pending for the id
NoTimeout == 0 - 1

NoTimeouts == [id \in ToastIds |-> NoTimeout]

\* generateId (toast.tsx 19-22): an id no toast and no timer has
generateId == CHOOSE id \in ToastIds : id \notin timers /\ \A k \in 1..Len(toasts) : toasts[k].id # id

Toast(id, message, variant) == [id |-> id, message |-> message, variant |-> variant]

\* ToastProvider.showToast (toast.tsx 36-43)
showToast(message, variant) ==
    /\ toasts' = Append(toasts, Toast(generateId, message, variant))
    /\ timers' = timers \cup {generateId}
    /\ timeouts' = [timeouts EXCEPT ![generateId] = TOAST_TIMEOUT]

\* the filter dropping every toast that carries the message of the dismissed one
VisibleAfterDismiss_ByMessage(ts, id) ==
    SelectSeq(ts, LAMBDA t : \A k \in 1..Len(ts) : ts[k].id = id => t.message # ts[k].message)

\* prev.filter((toast) => toast.id !== id) (toast.tsx 29)
VisibleAfterDismiss(ts, id) == SelectSeq(ts, LAMBDA t : t.id # id)

\* dismissToast leaving the timeout of the toast pending
TimeoutsAfterDismiss_NotCleared(pending, handles, id) == pending

\* clearTimeout(timers.current[id]) where a handle is stored (toast.tsx 30-32)
TimeoutsAfterDismiss(pending, handles, id) ==
    IF id \in handles THEN [pending EXCEPT ![id] = NoTimeout] ELSE pending

\* the body of ToastProvider.dismissToast (toast.tsx 28-34); `pending` are the
\* timeouts of the browser when it is called
Dismissed(id, pending) ==
    /\ toasts' = VisibleAfterDismiss(toasts, id)
    /\ timeouts' = TimeoutsAfterDismiss(pending, timers, id)
    /\ timers' = timers \ {id}

\* the Close button of a toast (toast.tsx 70-76); where time is not modelled
\* the step also stands for the timer of the toast
dismissToast(id) ==
    /\ \E k \in 1..Len(toasts) : toasts[k].id = id
    /\ Dismissed(id, timeouts)
    /\ appEvent' = AppEvent("dismissToast", FALSE, FALSE, "")
    /\ UNCHANGED <<dlgVars, apiVars, wiVars, rvVars, app, history>>

\* the timeout of a toast expires: the browser drops it and runs
\* () => dismissToast(id) (toast.tsx 40)
toastTimerFired(id) ==
    /\ timeouts[id] = 0
    /\ Dismissed(id, [timeouts EXCEPT ![id] = NoTimeout])
    /\ appEvent' = AppEvent("toastTimerFired", FALSE, FALSE, "")
    /\ UNCHANGED <<dlgVars, apiVars, wiVars, rvVars, app, history>>

\* a consumer of useToast calls showToast
useToast(message, variant) ==
    /\ Len(toasts) < MaxVisible
    /\ showToast(message, variant)
    /\ appEvent' = AppEvent("showToast", FALSE, FALSE, "")
    /\ UNCHANGED <<dlgVars, apiVars, wiVars, rvVars, app, history>>

\* time passes for the pending timeouts; a timeout that is due runs before
\* the clock moves on
ToastTimeSteps == {TOAST_TIMEOUT \div 3, 2 * (TOAST_TIMEOUT \div 3)}

ToastTick(d) ==
    /\ \E id \in ToastIds : timeouts[id] # NoTimeout
    /\ \A id \in ToastIds : timeouts[id] # NoTimeout => timeouts[id] >= d
    /\ timeouts' = [id \in ToastIds |->
                        IF timeouts[id] = NoTimeout THEN NoTimeout ELSE timeouts[id] - d]
    /\ appEvent' = AppEvent("toastTick", FALSE, FALSE, "")
    /\ UNCHANGED <<dlgVars, apiVars, wiVars, rvVars, app, history, toasts, timers>>

Toast_GenerateFailed == <<"Failed to generate learning card. Please try again.">>
Toast_SignInCollection == <<"Sign in to view your collection">>
Toast_SignInLearning == <<"Sign in to access the learning center">>
Toast_LoginFailed(m) == <<"Login failed: ">> \o m
Toast_RegisterFailed(m) == <<"Registration failed: ">> \o m

\* what the backend answers to the calls of the root controller
CardResponses == {HttpResponse("200", "json", "", "card1", "")}
ProfileResponses == {HttpResponse("200", "json", "", "u1", "")}
LearnResponses == {HttpResponse("200", "json", "", "learned", "")}
TokenResponses == {HttpResponse("200", "json", "", "auth", "t1")}
FailureResponses ==
    {HttpResponse("401", "json", "Unauthorized", "none", ""),
     HttpResponse("500", "json", "", "none", "")}

AppFetch(ep, cl) == Fetch("App", ep, <<>>, NoEntry, 0, getToken(cookie), cl)

\* the reset leaving the learning card in place
Reset_KeepsCard(a) == [a EXCEPT !.step = 1, !.word = "", !.meanings = "[]"]

\* handleReset (lines 387-392)
Reset(a) == [a EXCEPT !.step = 1, !.word = "", !.meanings = "[]", !.learningCard = "null"]

\* handleWordSubmit tests only selectedMeaning
MeaningResolved_SelectedOnly(selectedMeaning, customMeaning) == selectedMeaning # ""

\* line 363: selectedMeaning || customMeaning
MeaningResolved(selectedMeaning, customMeaning) == selectedMeaning # "" \/ customMeaning # ""

\* line 364: selectedMeaning || customMeaning || ""
MeaningToUse(selectedMeaning, customMeaning) ==
    IF selectedMeaning # "" THEN selectedMeaning ELSE customMeaning

\* handleMeaningSelect up to its await (lines 370-375)
MeaningSelectStarted(a) == [a EXCEPT !.loading = TRUE]

GenerateClosure(a, targetWord, meaning, from) ==
    Closure(targetWord, a.isAuthenticated, 0, meaning, a.user, from)

\* WordInput calls onWordSubmit: handleWordSubmit (lines 355-368)
handleWordSubmit(searchWord, fetchedMeanings, selectedMeaning, customMeaning) ==
    /\ app.view = "learn"
    /\ app.step = 1
    /\ LET a == [app EXCEPT !.word = searchWord, !.meanings = fetchedMeanings]
       IN  IF MeaningResolved(selectedMeaning, customMeaning)
           THEN /\ Len(net) < MaxInFlight
                /\ app' = MeaningSelectStarted(a)
                /\ net' = Append(net, AppFetch("generate",
                                GenerateClosure(app, searchWord,
                                    MeaningToUse(selectedMeaning, customMeaning), "search")))
           ELSE /\ app' = [a EXCEPT !.step = 2]
                /\ net' = net
    /\ appEvent' = AppEvent("handleWordSubmit", selectedMeaning # "" \/ customMeaning # "",
                            FALSE, "search")
    /\ UNCHANGED <<dlgVars, cookie, wordCache, now, ticks, calls, last, wiVars, rvVars,
                   history, toasts, timers, timeouts>>

\* MeaningSelector.handleMeaningClick / handleCustomSubmit (CollectionsPage.tsx
\* 260-270) calling handleMeaningSelect (lines 370-375)
handleMeaningClick(meaning) ==
    /\ app.view = "learn"
    /\ app.step = 2
    /\ ~app.loading
    /\ Len(net) < MaxInFlight
    /\ app' = MeaningSelectStarted(app)
    /\ net' = Append(net, AppFetch("generate", GenerateClosure(app, app.word, meaning, "selector")))
    /\ appEvent' = AppEvent("handleMeaningSelect", TRUE, FALSE, "selector")
    /\ UNCHANGED <<dlgVars, cookie, wordCache, now, ticks, calls, last, wiVars, rvVars,
                   history, toasts, timers, timeouts>>

\* the failure branch leaving the loading flag set
GenerateFailed_StaysLoading(a) == a

\* lines 379-384
GenerateFailed(a) == [a EXCEPT !.loading = FALSE]

\* lines 376-377, 383
GenerateSucceeded(a, data) == [a EXCEPT !.learningCard = data, !.step = 3, !.loading = FALSE]

\* handleMeaningSelect from the settlement of generateLearningCard on (lines 375-384),
\* with the start of handleWordLearned (lines 343-346)
GenerateSettled(i, resp) ==
    /\ net[i].owner = "App"
    /\ net[i].endpoint = "generate"
    /\ LET r == net[i]
           res == request(resp)
       IN  /\ cookie' = CookieAfterRequest(cookie, res)
           /\ appEvent' = AppEvent("generateSettled", TRUE, resp.status = "200",
                                   r.closure.from)
           /\ IF res.ok
              THEN /\ app' = GenerateSucceeded(app, res.data)
                   /\ IF r.closure.isAuthenticated /\ r.closure.user # "null"
                      THEN net' = Append(RemoveAt(net, i),
                                    Fetch("App", "learn", <<>>, NoEntry, 0,
                                          getToken(cookie'), r.closure))
                      ELSE net' = RemoveAt(net, i)
                   /\ UNCHANGED <<toasts, timers, timeouts>>
              ELSE /\ Len(toasts) < MaxToasts
                   /\ app' = GenerateFailed(app)
                   /\ showToast(Toast_GenerateFailed, "error")
                   /\ net' = RemoveAt(net, i)
    /\ UNCHANGED <<dlgVars, wordCache, now, ticks, calls, last, wiVars, rvVars, history>>

\* handleWordLearned from the settlement of learnWord on (lines 346-351)
LearnSettled(i, resp) ==
    /\ net[i].owner = "App"
    /\ net[i].endpoint = "learn"
    /\ LET r == net[i]
           res == request(resp)
       IN  /\ cookie' = CookieAfterRequest(cookie, res)
           /\ IF res.ok
              THEN net' = Append(RemoveAt(net, i),
                                 Fetch("App", "profile", <<>>, NoEntry, 0, getToken(cookie'),
                                       [r.closure EXCEPT !.from = "handleWordLearned"]))
              ELSE net' = RemoveAt(net, i)
           /\ appEvent' = AppEvent("learnSettled", FALSE, res.ok, r.closure.from)
    /\ UNCHANGED <<dlgVars, wordCache, now, ticks, calls, last, wiVars, rvVars, app,
                   history, toasts, timers, timeouts>>

\* the getProfile of checkAuth settles (lines 263-270)
CheckAuthSettled(i, resp) ==
    /\ net[i].owner = "App"
    /\ net[i].endpoint = "profile"
    /\ net[i].closure.from = "checkAuth"
    /\ LET res == request(resp)
       IN  /\ appEvent' = AppEvent("checkAuthSettled", FALSE, res.ok, "checkAuth")
           /\ IF res.ok
              THEN /\ app' = [app EXCEPT !.user = res.data, !.isAuthenticated = TRUE]
                   /\ cookie' = cookie
              ELSE /\ app' = [app EXCEPT !.user = "null", !.isAuthenticated = FALSE]
                   /\ cookie' = deleteCookie
    /\ net' = RemoveAt(net, i)
    /\ UNCHANGED <<dlgVars, wordCache, now, ticks, calls, last, wiVars, rvVars, history,
                   toasts, timers, timeouts>>

\* the getProfile of handleLogin / handleRegister settles (lines 307-315, 322-330)
LoginProfileSettled(i, resp) ==
    /\ net[i].owner = "App"
    /\ net[i].endpoint = "profile"
    /\ net[i].closure.from \in {"login", "register"}
    /\ LET res == request(resp)
           from == net[i].closure.from
       IN  /\ appEvent' = AppEvent("loginProfileSettled", FALSE, res.ok, from)
           /\ cookie' = CookieAfterRequest(cookie, res)
           /\ IF res.ok
              THEN /\ app' = [app EXCEPT !.user = res.data, !.isAuthenticated = TRUE,
                                         !.showAuth = FALSE, !.authLoading = FALSE]
                   /\ UNCHANGED <<toasts, timers, timeouts>>
              ELSE /\ Len(toasts) < MaxToasts
                   /\ app' = [app EXCEPT !.authLoading = FALSE]
                   /\ showToast(IF from = "login" THEN Toast_LoginFailed(res.message)
                                ELSE Toast_RegisterFailed(res.message), "error")
    /\ net' = RemoveAt(net, i)
    /\ UNCHANGED <<dlgVars, wordCache, now, ticks, calls, last, wiVars, rvVars, history>>

\* the getProfile of handleWordLearned settles (lines 347-351)
LearnedProfileSettled(i, resp) ==
    /\ net[i].owner = "App"
    /\ net[i].endpoint = "profile"
    /\ net[i].closure.from = "handleWordLearned"
    /\ LET res == request(resp)
       IN  /\ appEvent' = AppEvent("learnedProfileSettled", FALSE, res.ok, "handleWordLearned")
           /\ cookie' = CookieAfterRequest(cookie, res)
           /\ app' = IF res.ok THEN [app EXCEPT !.user = res.data] ELSE app
    /\ net' = RemoveAt(net, i)
    /\ UNCHANGED <<dlgVars, wordCache, now, ticks, calls, last, wiVars, rvVars, history,
                   toasts, timers, timeouts>>

\* AuthDialog submits: handleLogin / handleRegister up to the await (lines 303-306, 318-321)
handleLogin(ep) ==
    /\ app.showAuth
    /\ ~app.authLoading
    /\ Len(net) < MaxInFlight
    /\ app' = [app EXCEPT !.authLoading = TRUE]
    /\ net' = Append(net, AppFetch(ep, Closure(<<>>, app.isAuthenticated, 0, "", app.user, ep)))
    /\ appEvent' = AppEvent("handleLogin", FALSE, FALSE, ep)
    /\ UNCHANGED <<dlgVars, cookie, wordCache, now, ticks, calls, last, wiVars, rvVars,
                   history, toasts, timers, timeouts>>

\* apiService.login / register settles (api.ts 386-412), then lines 307, 311-315
LoginSettled(i, resp) ==
    /\ net[i].owner = "App"
    /\ net[i].endpoint \in {"login", "register"}
    /\ LET r == net[i]
           res == request(resp)
       IN  /\ cookie' = CookieAfterAuth(cookie, res)
           /\ appEvent' = AppEvent("loginSettled", FALSE, res.ok, r.endpoint)
           /\ IF res.ok
              THEN /\ net' = Append(RemoveAt(net, i),
                                    Fetch("App", "profile", <<>>, NoEntry, 0, getToken(cookie'),
                                          r.closure))
                   /\ UNCHANGED <<app, toasts, timers, timeouts>>
              ELSE /\ Len(toasts) < MaxToasts
                   /\ net' = RemoveAt(net, i)
                   /\ app' = [app EXCEPT !.authLoading = FALSE]
                   /\ showToast(IF r.endpoint = "login" THEN Toast_LoginFailed(res.message)
                                ELSE Toast_RegisterFailed(res.message), "error")
    /\ UNCHANGED <<dlgVars, wordCache, now, ticks, calls, last, wiVars, rvVars, history>>

\* handleLogout (lines 333-341)
handleLogout ==
    /\ cookie' = deleteCookie
    /\ app' = [Reset(app) EXCEPT !.isAuthenticated = FALSE, !.user = "null"]
    /\ appEvent' = AppEvent("handleLogout", FALSE, FALSE, "")
    /\ UNCHANGED <<dlgVars, wordCache, now, ticks, net, calls, last, wiVars, rvVars,
                   history, toasts, timers, timeouts>>

\* onSignIn / onLoginRequired / onOpenChange: setShowAuth (lines 447, 482, 515)
setShowAuth(open) ==
    /\ app.showAuth # open
    /\ app' = [app EXCEPT !.showAuth = open]
    /\ appEvent' = AppEvent("setShowAuth", FALSE, FALSE, "")
    /\ UNCHANGED <<dlgVars, apiVars, wiVars, rvVars, history, toasts, timers, timeouts>>

\* MeaningSelector.onBack (enabled while not loading) and LearningCard.onReset
handleReset ==
    /\ app.view = "learn"
    /\ \/ app.step = 2 /\ ~app.loading
       \/ app.step = 3 /\ app.learningCard # "null"
    /\ app' = Reset(app)
    /\ appEvent' = AppEvent("handleReset", FALSE, FALSE, "")
    /\ UNCHANGED <<dlgVars, apiVars, wiVars, rvVars, history, toasts, timers, timeouts>>

\* the guard of the view requests without the negation
SignInRequired_Inverted(a) == a.isAuthenticated

\* lines 395, 406
SignInRequired(a) == ~a.isAuthenticated

\* handleViewCollection (lines 394-403)
handleViewCollection ==
    /\ IF SignInRequired(app)
       THEN /\ Len(toasts) < MaxToasts
            /\ showToast(Toast_SignInCollection, "error")
            /\ app' = [app EXCEPT !.showAuth = TRUE]
            /\ UNCHANGED history
       ELSE /\ Len(history.entries) < MaxHistory
            /\ app' = [Reset(app) EXCEPT !.view = "collections"]
            /\ history' = PushState(history, "collections")
            /\ UNCHANGED <<toasts, timers, timeouts>>
    /\ appEvent' = AppEvent("handleViewCollection", FALSE, FALSE, "")
    /\ UNCHANGED <<dlgVars, apiVars, wiVars, rvVars>>

\* handleViewLearningCenter (lines 405-413)
handleViewLearningCenter ==
    /\ IF SignInRequired(app)
       THEN /\ Len(toasts) < MaxToasts
            /\ showToast(Toast_SignInLearning, "error")
            /\ app' = [app EXCEPT !.showAuth = TRUE]
            /\ UNCHANGED history
       ELSE /\ Len(history.entries) < MaxHistory
            /\ app' = [app EXCEPT !.view = "learning"]
            /\ history' = PushState(history, "learning")
            /\ UNCHANGED <<toasts, timers, timeouts>>
    /\ appEvent' = AppEvent("handleViewLearningCenter", FALSE, FALSE, "")
    /\ UNCHANGED <<dlgVars, apiVars, wiVars, rvVars>>

\* CollectionsPage.onBack: handleBackFromCollections (lines 415-418)
handleBackFromCollections ==
    /\ app.view = "collections"
    /\ Len(history.entries) < MaxHistory
    /\ app' = [Reset(app) EXCEPT !.view = "learn"]
    /\ history' = PushState(history, "learn")
    /\ appEvent' = AppEvent("handleBackFromCollections", FALSE, FALSE, "")
    /\ UNCHANGED <<dlgVars, apiVars, wiVars, rvVars, toasts, timers, timeouts>>

\* LearningCenterPage.onBack: handleBackFromLearningCenter (lines 420-422)
handleBackFromLearningCenter ==
    /\ app.view = "learning"
    /\ Len(history.entries) < MaxHistory
    /\ app' = [app EXCEPT !.view = "collections"]
    /\ history' = PushState(history, "collections")
    /\ appEvent' = AppEvent("handleBackFromLearningCenter", FALSE, FALSE, "")
    /\ UNCHANGED <<dlgVars, apiVars, wiVars, rvVars, toasts, timers, timeouts>>

\* the browser's back (-1) or forward (+1) button, then handlePopState (lines 277-286)
handlePopState(delta) ==
    /\ history.index + delta \in 1..Len(history.entries)
    /\ history' = [history EXCEPT !.index = @ + delta]
    /\ app' = [app EXCEPT !.view = ViewOfPath(history.entries[history.index + delta])]
    /\ appEvent' = AppEvent("handlePopState", FALSE, FALSE, "")
    /\ UNCHANGED <<dlgVars, apiVars, wiVars, rvVars, toasts, timers, timeouts>>

-----------------------------------------------------------------------------
(* Review sessions: ReviewSession and EnhancedReviewSession *)

MaxSessions == 1
MaxReveal == 2
MaxCount == 2

\* where a session is mounted.  EnhancedReviewSession is mounted by
\* CollectionsPage (CollectionsPage.tsx 224-233) and by LearningMode (700-709);
\* ReviewSession is exported but mounted nowhere in the repository: it is given
\* a host that treats onClose and onComplete as LearningMode does.
ReviewMounts ==
    {[parent |-> "CollectionsPage", component |-> "EnhancedReviewSession"],
     [parent |-> "LearningMode", component |-> "EnhancedReviewSession"],
     [parent |-> "LearningMode", component |-> "ReviewSession"]}

\* the ids of the cards of the due batches the backend answers with
DueLists == {<<>>, <<"c1">>, <<"c1", "c2">>}

\* ReviewRating (index.ts 81)
ReviewRatings == 1..4

\* the question types with a delayed reveal (multiple-choice, true-false,
\* speak-sentence) and with an explicit one (fill-blank, short-answer, ...)
TimedQuestionTypes == {"multiple-choice"}
TypedQuestionTypes == {"short-answer"}

NoQuestion == [card |-> "none", type |-> "none"]

\* the useState initial values of a session that is not mounted
ReviewUnmounted(mount, session) ==
    [parent |-> mount.parent, component |-> mount.component, open |-> FALSE,
     session |-> session, cards |-> <<>>, currentIndex |-> 0,
     currentQuestion |-> NoQuestion, showAnswer |-> FALSE, userAnswer |-> "",
     loading |-> FALSE, reviewing |-> FALSE]

\* useState initial values (EnhancedReviewSession.tsx 20-28, ReviewSession.tsx 17-21)
ReviewMounted(rv) ==
    [rv EXCEPT !.open = TRUE, !.session = @ + 1, !.cards = <<>>, !.currentIndex = 0,
               !.currentQuestion = NoQuestion, !.showAnswer = FALSE, !.userAnswer = "",
               !.loading = TRUE, !.reviewing = FALSE]

\* the parent's setShowReviewSession(false): the session is unmounted
ReviewClosed(rv) ==
    ReviewUnmounted([parent |-> rv.parent, component |-> rv.component], rv.session)

NoReviewLog ==
    [dueFetches |-> 0, firstDue |-> "none", recorded |-> <<>>, completes |-> 0,
     acted |-> FALSE, dirty |-> FALSE]

ReviewEvent(op, session, card, rating, ok, completed) ==
    [op |-> op, session |-> session, card |-> card, rating |-> rating, ok |-> ok,
     completed |-> completed]

NoReviewEvent == ReviewEvent("none", 0, "none", 0, FALSE, FALSE)

Saturated(n) == IF n < MaxCount THEN n + 1 ELSE MaxCount

\* what the continuation of a review fetch closed over
ReviewClosure(session, index, card, rating, n) ==
    [session |-> session, index |-> index, card |-> card, rating |-> rating, n |-> n]

ReviewFetch(ep, cl) == Fetch("Review", ep, <<>>, NoEntry, 0, getToken(cookie), cl)

Toast_NoCardsDue == <<"No cards due for review!">>
Toast_LoadFailed == <<"Failed to load review cards">>
Toast_QuestionFailed == <<"Failed to load question">>
Toast_RecordFailed == <<"Failed to record review">>
Toast_SessionComplete(n) == <<"Review session complete! ", n, " cards reviewed">>

\* question, answer or rating controls are on the screen: the render guards
\* (ReviewSession.tsx 75-89, EnhancedReviewSession.tsx 347-361)
FlashcardUI(rv) == rv.open /\ ~rv.loading /\ rv.cards # <<>>

\* the render reads cards[currentIndex] (ReviewSession.tsx 91, 120;
\* EnhancedReviewSession.tsx 363, 373)
CurrentCardDefined(rv) == rv.currentIndex < Len(rv.cards)

\* the collectionIds prop is a new array on every render of CollectionsPage
\* (CollectionsPage.tsx 226) and a dependency of the loadDueCards effect
\* (EnhancedReviewSession.tsx 31-33); LearningMode passes a state value
\* (CollectionsPage.tsx 702) and ReviewSession depends on a string (24-27)
DueDepsAlwaysNew(rv) ==
    rv.parent = "CollectionsPage" /\ rv.component = "EnhancedReviewSession"

\* the effect on [currentIndex, cards] (EnhancedReviewSession.tsx 35-39)
QuestionFetches(rv) ==
    IF rv.component = "EnhancedReviewSession" /\ rv.open /\ rv.cards # <<>>
            /\ rv.currentIndex < Len(rv.cards)
    THEN <<ReviewFetch("question",
                ReviewClosure(rv.session, rv.currentIndex, rv.cards[rv.currentIndex + 1], 0,
                              Len(rv.cards)))>>
    ELSE <<>>

\* onCollectionsChange of App (index.ts 459-463, 470-474)
CollectionsChangeFetches ==
    IF app.isAuthenticated /\ app.user # "null"
    THEN <<AppFetch("profile", Closure(<<>>, app.isAuthenticated, 0, "", app.user,
                                       "onCollectionsChange"))>>
    ELSE <<>>

\* the end of a step: `rendered` says that App and with it the parent of the
\* session rendered again (a toast came or went, App state changed); the
\* loadDueCards effect then runs again where its dependencies are always new
ReviewCommit(rv, log, pending, rendered) ==
    LET reload == rendered /\ rv.open /\ DueDepsAlwaysNew(rv)
    IN  /\ review' = IF reload THEN [rv EXCEPT !.loading = TRUE] ELSE rv
        /\ rvLog' = IF reload THEN [log EXCEPT !.dueFetches = Saturated(@)] ELSE log
        /\ net' = IF reload
                  THEN Append(pending, ReviewFetch("due", ReviewClosure(rv.session, 0, "none", 0, 0)))
                  ELSE pending

\* loadDueCards never taking the branch of an empty batch
DueBatchEmpty_Never(cards) == FALSE

\* response.cards.length === 0 (EnhancedReviewSession.tsx 46, ReviewSession.tsx 34)
DueBatchEmpty(cards) == cards = <<>>

\* ReviewDashboard.onStartReview / 'Practice Anyway': setShowReviewSession(true)
\* (CollectionsPage.tsx 89, 679, 690), the mount and its loadDueCards effect
onStartReview ==
    /\ ~review.open
    /\ review.session < MaxSessions
    /\ Len(net) < MaxInFlight
    /\ review' = ReviewMounted(review)
    /\ net' = Append(net, ReviewFetch("due", ReviewClosure(review.session + 1, 0, "none", 0, 0)))
    /\ rvLog' = [NoReviewLog EXCEPT !.dueFetches = 1, !.firstDue = "pending",
                                    !.dirty = rvLog.dirty]
    /\ rvEvent' = ReviewEvent("onStartReview", review.session + 1, "none", 0, FALSE, FALSE)
    /\ UNCHANGED <<dlgVars, cookie, wordCache, now, ticks, calls, last, wiVars, app, appRest, reveals>>

\* loadDueCards from the settlement of getCardsForReview on
\* (EnhancedReviewSession.tsx 44-55, ReviewSession.tsx 32-43)
DueSettled(i, resp) ==
    /\ net[i].owner = "Review"
    /\ net[i].endpoint = "due"
    /\ LET cl == net[i].closure
           res == request(resp)
           latest == cl.session = review.session
           mounted == latest /\ review.open
           first == latest /\ rvLog.firstDue = "pending"
           rest == RemoveAt(net, i)
       IN  /\ cookie' = CookieAfterRequest(cookie, res)
           /\ IF res.ok /\ ~DueBatchEmpty(res.data)
              THEN LET rv == IF mounted
                             THEN [review EXCEPT !.cards = res.data, !.loading = FALSE]
                             ELSE review
                   IN  /\ ReviewCommit(rv,
                                [rvLog EXCEPT !.firstDue =
                                    IF ~first THEN @
                                    ELSE IF res.data = <<>> THEN "zero" ELSE "some"],
                                rest \o (IF mounted THEN QuestionFetches(rv) ELSE <<>>), FALSE)
                       /\ rvEvent' = ReviewEvent("dueSettled", cl.session, "none", 0, TRUE, FALSE)
                       /\ UNCHANGED <<toasts, timers, timeouts>>
              ELSE /\ Len(toasts) < MaxToasts
                   /\ IF res.ok
                      THEN /\ showToast(Toast_NoCardsDue, "success")
                           /\ ReviewCommit(ReviewClosed(review),
                                [rvLog EXCEPT !.firstDue = IF first THEN "zero" ELSE @,
                                              !.completes = IF latest THEN Saturated(@) ELSE @,
                                              !.dirty = @ /\ CollectionsChangeFetches = <<>>],
                                rest \o CollectionsChangeFetches, TRUE)
                           /\ rvEvent' = ReviewEvent("dueSettled", cl.session, "none", 0,
                                                     TRUE, TRUE)
                      ELSE /\ showToast(Toast_LoadFailed, "error")
                           /\ ReviewCommit(ReviewClosed(review),
                                [rvLog EXCEPT !.firstDue = IF first THEN "failed" ELSE @],
                                rest, TRUE)
                           /\ rvEvent' = ReviewEvent("dueSettled", cl.session, "none", 0,
                                                     FALSE, FALSE)
    /\ UNCHANGED <<dlgVars, wordCache, now, ticks, calls, last, wiVars, app, history, appEvent, reveals>>

\* the rating buttons are on the screen and enabled (ReviewSession.tsx 153,
\* 187-190; EnhancedReviewSession.tsx 267, 313-315, 433)
RatingEnabled(rv) ==
    /\ FlashcardUI(rv)
    /\ CurrentCardDefined(rv)
    /\ rv.showAnswer
    /\ ~rv.reviewing
    /\ rv.component = "EnhancedReviewSession" => rv.currentQuestion # NoQuestion

\* handleRating up to its await (ReviewSession.tsx 46-53, EnhancedReviewSession.tsx 78-93)
handleRating(rating) ==
    /\ RatingEnabled(review)
    /\ Len(net) < MaxInFlight
    /\ LET card == review.cards[review.currentIndex + 1]
       IN  /\ net' = Append(net, ReviewFetch("record",
                        ReviewClosure(review.session, review.currentIndex, card, rating,
                                      Len(review.cards))))
           /\ rvEvent' = ReviewEvent("handleRating", review.session, card, rating, FALSE, FALSE)
    /\ review' = [review EXCEPT !.reviewing = TRUE]
    /\ UNCHANGED <<dlgVars, cookie, wordCache, now, ticks, calls, last, wiVars, app, appRest, reveals,
                   rvLog>>

\* the success branch moving on by two cards
RecordAdvanced_SkipsCard(rv, cl) ==
    [rv EXCEPT !.currentIndex = cl.index + 2,
               !.showAnswer = IF rv.component = "ReviewSession" THEN FALSE ELSE @,
               !.reviewing = FALSE]

\* ReviewSession.tsx 56-58, 67; EnhancedReviewSession.tsx 96-97, 106
RecordAdvanced(rv, cl) ==
    [rv EXCEPT !.currentIndex = cl.index + 1,
               !.showAnswer = IF rv.component = "ReviewSession" THEN FALSE ELSE @,
               !.reviewing = FALSE]

\* handleRating from the settlement of recordCardReview on
\* (ReviewSession.tsx 53-68, EnhancedReviewSession.tsx 86-107)
RecordSettled(i, resp) ==
    /\ net[i].owner = "Review"
    /\ net[i].endpoint = "record"
    /\ LET cl == net[i].closure
           res == request(resp)
           latest == cl.session = review.session
           mounted == latest /\ review.open
           rest == RemoveAt(net, i)
           logged == [rvLog EXCEPT !.recorded = IF latest THEN Append(@, cl.card) ELSE @,
                                   !.dirty = TRUE]
       IN  /\ cookie' = CookieAfterRequest(cookie, res)
           /\ IF res.ok /\ cl.index < cl.n - 1
              THEN LET rv == IF mounted THEN RecordAdvanced(review, cl) ELSE review
                   IN  /\ ReviewCommit(rv, logged,
                                rest \o (IF mounted /\ rv.currentIndex # review.currentIndex
                                         THEN QuestionFetches(rv) ELSE <<>>), FALSE)
                       /\ rvEvent' = ReviewEvent("recordSettled", cl.session, cl.card, cl.rating,
                                                 TRUE, FALSE)
                       /\ UNCHANGED <<toasts, timers, timeouts>>
              ELSE /\ Len(toasts) < MaxToasts
                   /\ IF res.ok
                      THEN /\ showToast(Toast_SessionComplete(cl.n), "success")
                           /\ ReviewCommit(ReviewClosed(review),
                                [logged EXCEPT !.completes = IF latest THEN Saturated(@) ELSE @,
                                               !.dirty = CollectionsChangeFetches = <<>>],
                                rest \o CollectionsChangeFetches, TRUE)
                           /\ rvEvent' = ReviewEvent("recordSettled", cl.session, cl.card,
                                                     cl.rating, TRUE, TRUE)
                      ELSE /\ showToast(Toast_RecordFailed, "error")
                           /\ ReviewCommit(IF mounted THEN [review EXCEPT !.reviewing = FALSE]
                                           ELSE review, rvLog, rest, TRUE)
                           /\ rvEvent' = ReviewEvent("recordSettled", cl.session, cl.card,
                                                     cl.rating, FALSE, FALSE)
    /\ UNCHANGED <<dlgVars, wordCache, now, ticks, calls, last, wiVars, app, history, appEvent, reveals>>

\* loadQuestion from the settlement of getCardQuestion on (EnhancedReviewSession.tsx 63-71)
QuestionSettled(i, resp) ==
    /\ net[i].owner = "Review"
    /\ net[i].endpoint = "question"
    /\ LET cl == net[i].closure
           res == request(resp)
           mounted == cl.session = review.session /\ review.open
           rest == RemoveAt(net, i)
       IN  /\ cookie' = CookieAfterRequest(cookie, res)
           /\ rvEvent' = ReviewEvent("questionSettled", cl.session, cl.card, 0, res.ok, FALSE)
           /\ IF res.ok
              THEN /\ ReviewCommit(
                        IF mounted
                        THEN [review EXCEPT !.currentQuestion = [card |-> cl.card, type |-> res.data],
                                            !.showAnswer = FALSE, !.userAnswer = ""]
                        ELSE review,
                        [rvLog EXCEPT !.acted = IF mounted THEN FALSE ELSE @], rest, FALSE)
                   /\ UNCHANGED <<toasts, timers, timeouts>>
              ELSE /\ Len(toasts) < MaxToasts
                   /\ showToast(Toast_QuestionFailed, "error")
                   /\ ReviewCommit(review, rvLog, rest, TRUE)
    /\ UNCHANGED <<dlgVars, wordCache, now, ticks, calls, last, wiVars, app, history, appEvent, reveals>>

\* the question of EnhancedReviewSession is on the screen (lines 110-111, 433)
QuestionShown(rv) ==
    /\ rv.component = "EnhancedReviewSession"
    /\ FlashcardUI(rv)
    /\ CurrentCardDefined(rv)
    /\ ~rv.showAnswer
    /\ rv.currentQuestion # NoQuestion

\* an option, True/False or 'Start Speaking' is clicked: setUserAnswer and
\* setTimeout(() => handleShowAnswer(), ...) (EnhancedReviewSession.tsx 126-129,
\* 147-150, 157-160, 237-242)
chooseOption ==
    /\ QuestionShown(review)
    /\ review.currentQuestion.type \in TimedQuestionTypes
    /\ Len(reveals) < MaxReveal
    /\ review' = [review EXCEPT !.userAnswer = "option"]
    /\ reveals' = Append(reveals, [session |-> review.session,
                                   card |-> review.currentQuestion.card])
    /\ rvLog' = [rvLog EXCEPT !.acted = TRUE]
    /\ rvEvent' = ReviewEvent("chooseOption", review.session, review.currentQuestion.card, 0,
                              FALSE, FALSE)
    /\ UNCHANGED <<dlgVars, apiVars, wiVars, app, appRest>>

\* the answer is typed into the Input or Textarea (EnhancedReviewSession.tsx 176, 208)
typeAnswer ==
    /\ QuestionShown(review)
    /\ review.currentQuestion.type \in TypedQuestionTypes
    /\ review.userAnswer = ""
    /\ review' = [review EXCEPT !.userAnswer = "typed"]
    /\ rvEvent' = ReviewEvent("typeAnswer", review.session, review.currentQuestion.card, 0,
                              FALSE, FALSE)
    /\ UNCHANGED <<dlgVars, apiVars, wiVars, app, appRest, reveals, rvLog>>

\* 'Show Answer' of ReviewSession (ReviewSession.tsx 71-73, 153-161); 'Check
\* Answer', 'Show Example Answer' or Enter of EnhancedReviewSession (74-76,
\* 179-189, 213-217)
handleShowAnswer ==
    /\ \/ /\ review.component = "ReviewSession"
          /\ FlashcardUI(review)
          /\ CurrentCardDefined(review)
          /\ ~review.showAnswer
       \/ /\ QuestionShown(review)
          /\ review.currentQuestion.type \in TypedQuestionTypes
          /\ review.userAnswer # ""
    /\ review' = [review EXCEPT !.showAnswer = TRUE]
    /\ rvLog' = [rvLog EXCEPT !.acted = TRUE]
    /\ rvEvent' = ReviewEvent("handleShowAnswer", review.session, "none", 0, FALSE, FALSE)
    /\ UNCHANGED <<dlgVars, apiVars, wiVars, app, appRest, reveals>>

\* a reveal timer expires: handleShowAnswer of the session that started it
revealTimerFired ==
    /\ reveals # <<>>
    /\ review' = IF review.open /\ Head(reveals).session = review.session
                 THEN [review EXCEPT !.showAnswer = TRUE]
                 ELSE review
    /\ reveals' = Tail(reveals)
    /\ rvEvent' = ReviewEvent("revealTimerFired", Head(reveals).session, Head(reveals).card, 0,
                              FALSE, FALSE)
    /\ UNCHANGED <<dlgVars, apiVars, wiVars, app, appRest, rvLog>>

\* the X button: onClose (ReviewSession.tsx 110, EnhancedReviewSession.tsx 392;
\* CollectionsPage.tsx 227, 703)
onClose ==
    /\ FlashcardUI(review)
    /\ CurrentCardDefined(review)
    /\ review' = ReviewClosed(review)
    /\ rvEvent' = ReviewEvent("onClose", review.session, "none", 0, FALSE, FALSE)
    /\ UNCHANGED <<dlgVars, apiVars, wiVars, app, appRest, reveals, rvLog>>

\* ToastProvider.dismissToast (toast.tsx 28-34) while a review screen is up:
\* the context value is a new object (toast.tsx 58), so App renders again
toastDismissed(id) ==
    /\ \E k \in 1..Len(toasts) : toasts[k].id = id
    /\ Len(net) < MaxInFlight
    /\ Dismissed(id, timeouts)
    /\ ReviewCommit(review, rvLog, net, TRUE)
    /\ rvEvent' = ReviewEvent("toastDismissed", review.session, "none", 0, FALSE, FALSE)
    /\ UNCHANGED <<dlgVars, cookie, wordCache, now, ticks, calls, last, wiVars, app, history, appEvent,
                   reveals>>

\* the getProfile of onCollectionsChange settles: .then(setUser).catch(console.error)
\* (index.ts 459-463, 470-474)
CollectionsProfileSettled(i, resp) ==
    /\ net[i].owner = "App"
    /\ net[i].endpoint = "profile"
    /\ net[i].closure.from = "onCollectionsChange"
    /\ LET res == request(resp)
       IN  /\ cookie' = CookieAfterRequest(cookie, res)
           /\ app' = IF res.ok THEN [app EXCEPT !.user = res.data] ELSE app
           /\ appEvent' = AppEvent("collectionsProfileSettled", FALSE, res.ok,
                                   "onCollectionsChange")
           /\ ReviewCommit(review, rvLog, RemoveAt(net, i), res.ok)
    /\ rvEvent' = ReviewEvent("collectionsProfileSettled", review.session, "none", 0, FALSE,
                              FALSE)
    /\ UNCHANGED <<dlgVars, wordCache, now, ticks, calls, last, wiVars, history, toasts, timers, timeouts,
                   reveals>>

\* what the backend answers to the calls of a review session
DueResponses == {HttpResponse("200", "json", "", l, "") : l \in DueLists}
QuestionResponses ==
    {HttpResponse("200", "json", "", t, "") : t \in TimedQuestionTypes \cup TypedQuestionTypes}
RecordResponses == {HttpResponse("200", "json", "", "recorded", "")}
ReviewFailures == {HttpResponse("500", "json", "", "none", "")}

-----------------------------------------------------------------------------
(* The save dialog of a learning card: SaveToCollectionDialog *)

\* collections created from the dialog
MaxCreated == 1

Collection(id, isDefault) == [id |-> id, isDefault |-> isDefault]

\* user.collections of the profile when the card screen is mounted
InitialCollections ==
    {<<>>,
     <<Collection("c1", TRUE)>>,
     <<Collection("c1", FALSE), Collection("c2", TRUE)>>}

\* the ids the backend gives to the collections it creates
NewIds == <<"n1", "n2">>

\* useState initial values (SaveToCollectionDialog.tsx 30-40) with the props
\* open and collections (LearningCard.tsx 138-145)
DialogMounted(collections) ==
    [mounted |-> TRUE, open |-> FALSE, collections |-> collections,
     selectedCollectionId |-> "", showCreateForm |-> FALSE, isSaving |-> FALSE,
     isCreating |-> FALSE, name |-> "", refreshTimers |-> 0]

DialogUnmounted == [DialogMounted(<<>>) EXCEPT !.mounted = FALSE]

\* the ghost fields `created` and `listed`: the collection created last and
\* whether the dialog has received a list that holds it
Backend(collections) ==
    [collections |-> collections, saved |-> <<>>, created |-> "", listed |-> FALSE]

NoBackend == Backend(<<>>)

DialogEvent(op, ok) == AppEvent(op, FALSE, ok, "SaveToCollectionDialog")

Toast_NameRequired == <<"Collection name is required">>
Toast_Created == <<"Collection created successfully">>
Toast_CreateFailed == <<"Failed to create collection">>
Toast_SelectCollection == <<"Please select a collection">>
Toast_Saved(name) == <<"card1", " saved to ", name>>
Toast_SaveFailed == <<"Failed to save card">>

DialogFetch(ep, collectionId) ==
    Fetch("Dialog", ep, <<>>, NoEntry, 0, getToken(cookie),
          [collectionId |-> collectionId, from |-> "SaveToCollectionDialog"])

Ids(collections) == {collections[k].id : k \in 1..Len(collections)}

\* how many collections of the list were created from the dialog
CreatedCount(collections) ==
    Cardinality(Ids(collections) \cap {NewIds[k] : k \in 1..Len(NewIds)})

CreatesInFlight == Len(SelectSeq(net, LAMBDA r : r.endpoint = "createCollection"))

\* lines 46-47: the default collection, else the first one, else none
DefaultSelection(collections) ==
    IF \E k \in 1..Len(collections) : collections[k].isDefault
    THEN collections[CHOOSE k \in 1..Len(collections) :
                        /\ collections[k].isDefault
                        /\ \A j \in 1..(k - 1) : ~collections[j].isDefault].id
    ELSE IF collections # <<>> THEN collections[1].id ELSE ""

\* the effect on [open, collections] (lines 43-59)
ResetEffect(d) ==
    IF d.open
    THEN [d EXCEPT !.selectedCollectionId = DefaultSelection(d.collections),
                   !.showCreateForm = FALSE, !.isSaving = FALSE, !.isCreating = FALSE,
                   !.name = ""]
    ELSE d

\* onCollectionsChange of the card screen (index.ts 502-506)
CardCollectionsChange ==
    IF app.isAuthenticated /\ app.user # "null"
    THEN <<AppFetch("profile", Closure(<<>>, app.isAuthenticated, 0, "", app.user,
                                       "cardCollectionsChange"))>>
    ELSE <<>>

\* LearningCard.handleSaveClick (LearningCard.tsx 29-32): the dialog opens and
\* its effect runs
handleSaveClick ==
    /\ saveDialog.mounted
    /\ ~saveDialog.open
    /\ saveDialog' = ResetEffect([saveDialog EXCEPT !.open = TRUE])
    /\ appEvent' = DialogEvent("handleSaveClick", FALSE)
    /\ UNCHANGED <<apiVars, wiVars, rvVars, app, history, toasts, timers, timeouts, backend>>

\* the dialog is closed by the user: onOpenChange(false)
onOpenChange ==
    /\ saveDialog.open
    /\ saveDialog' = [saveDialog EXCEPT !.open = FALSE]
    /\ appEvent' = DialogEvent("onOpenChange", FALSE)
    /\ UNCHANGED <<apiVars, wiVars, rvVars, app, history, toasts, timers, timeouts, backend>>

\* a collection of the list is clicked (line 164)
setSelectedCollectionId(id) ==
    /\ saveDialog.open
    /\ ~saveDialog.showCreateForm
    /\ id \in Ids(saveDialog.collections)
    /\ saveDialog.selectedCollectionId # id
    /\ saveDialog' = [saveDialog EXCEPT !.selectedCollectionId = id]
    /\ appEvent' = DialogEvent("setSelectedCollectionId", FALSE)
    /\ UNCHANGED <<apiVars, wiVars, rvVars, app, history, toasts, timers, timeouts, backend>>

\* 'Create New', and Cancel or X of the form (lines 208, 228, 312)
setShowCreateForm(show) ==
    /\ saveDialog.open
    /\ saveDialog.showCreateForm # show
    /\ saveDialog' = [saveDialog EXCEPT !.showCreateForm = show]
    /\ appEvent' = DialogEvent("setShowCreateForm", FALSE)
    /\ UNCHANGED <<apiVars, wiVars, rvVars, app, history, toasts, timers, timeouts, backend>>

\* the name of the new collection is typed
setNewCollection(name) ==
    /\ saveDialog.open
    /\ saveDialog.showCreateForm
    /\ saveDialog.name # name
    /\ saveDialog' = [saveDialog EXCEPT !.name = name]
    /\ appEvent' = DialogEvent("setNewCollection", FALSE)
    /\ UNCHANGED <<apiVars, wiVars, rvVars, app, history, toasts, timers, timeouts, backend>>

\* 'Create & Save' (lines 317-322): handleCreateCollection up to its await
\* (lines 77-90)
handleCreateCollection ==
    /\ saveDialog.open
    /\ saveDialog.showCreateForm
    /\ saveDialog.name # ""
    /\ ~saveDialog.isCreating
    /\ Len(net) < MaxInFlight
    /\ CreatedCount(backend.collections) + CreatesInFlight < MaxCreated
    /\ saveDialog' = [saveDialog EXCEPT !.isCreating = TRUE]
    /\ net' = Append(net, DialogFetch("createCollection", ""))
    /\ appEvent' = DialogEvent("handleCreateCollection", FALSE)
    /\ UNCHANGED <<cookie, wordCache, now, ticks, calls, last, wiVars, rvVars, app, history,
                   toasts, timers, timeouts, backend>>

\* the backend creates the collection and answers, or fails before it has
\* created anything; then handleCreateCollection goes on (lines 92-107)
CreateSettled(i, resp) ==
    /\ net[i].owner = "Dialog"
    /\ net[i].endpoint = "createCollection"
    /\ Len(toasts) < MaxToasts
    /\ LET res == request(resp)
           id == NewIds[CreatedCount(backend.collections) + 1]
       IN  /\ cookie' = CookieAfterRequest(cookie, res)
           /\ appEvent' = DialogEvent("createSettled", res.ok)
           /\ IF res.ok
              THEN /\ backend' = [backend EXCEPT
                                    !.collections = Append(@, Collection(id, FALSE)),
                                    !.created = id, !.listed = FALSE]
                   /\ showToast(Toast_Created, "success")
                   /\ net' = RemoveAt(net, i) \o CardCollectionsChange
                   /\ saveDialog' =
                        IF saveDialog.mounted
                        THEN [saveDialog EXCEPT !.showCreateForm = FALSE, !.isCreating = FALSE,
                                                !.refreshTimers = @ + 1]
                        ELSE saveDialog
              ELSE /\ backend' = backend
                   /\ showToast(Toast_CreateFailed, "error")
                   /\ net' = RemoveAt(net, i)
                   /\ saveDialog' = IF saveDialog.mounted
                                    THEN [saveDialog EXCEPT !.isCreating = FALSE]
                                    ELSE saveDialog
    /\ UNCHANGED <<wordCache, now, ticks, calls, last, wiVars, rvVars, app, history>>

\* the timer of line 98 expires: onCollectionsChange() once more
refreshTimerFired ==
    /\ saveDialog.refreshTimers > 0
    /\ Len(net) < MaxInFlight
    /\ saveDialog' = [saveDialog EXCEPT !.refreshTimers = @ - 1]
    /\ net' = net \o CardCollectionsChange
    /\ appEvent' = DialogEvent("refreshTimerFired", FALSE)
    /\ UNCHANGED <<cookie, wordCache, now, ticks, calls, last, wiVars, rvVars, app, history,
                   toasts, timers, timeouts, backend>>

\* the getProfile of onCollectionsChange settles: .then(setUser) (index.ts 504);
\* the card screen passes user.collections on and the reset effect runs
CardProfileSettled(i, resp) ==
    /\ net[i].owner = "App"
    /\ net[i].endpoint = "profile"
    /\ net[i].closure.from = "cardCollectionsChange"
    /\ LET res == request(resp)
       IN  /\ cookie' = CookieAfterRequest(cookie, res)
           /\ appEvent' = DialogEvent("cardProfileSettled", res.ok)
           /\ app' = IF res.ok THEN [app EXCEPT !.user = res.data] ELSE app
           /\ saveDialog' =
                IF res.ok /\ saveDialog.mounted
                THEN ResetEffect([saveDialog EXCEPT !.collections = backend.collections])
                ELSE saveDialog
           /\ backend' =
                IF res.ok /\ saveDialog.mounted /\ backend.created # ""
                THEN [backend EXCEPT !.listed = TRUE]
                ELSE backend
    /\ net' = RemoveAt(net, i)
    /\ UNCHANGED <<wordCache, now, ticks, calls, last, wiVars, rvVars, history, toasts, timers,
                   timeouts>>

\* 'Save' (lines 211-218): handleSaveToCollection up to its await (lines 110-118)
handleSaveToCollection ==
    /\ saveDialog.open
    /\ ~saveDialog.showCreateForm
    /\ saveDialog.selectedCollectionId # ""
    /\ ~saveDialog.isSaving
    /\ Len(net) < MaxInFlight
    /\ saveDialog' = [saveDialog EXCEPT !.isSaving = TRUE]
    /\ net' = Append(net, DialogFetch("saveLearningCard", saveDialog.selectedCollectionId))
    /\ appEvent' = DialogEvent("handleSaveToCollection", FALSE)
    /\ UNCHANGED <<cookie, wordCache, now, ticks, calls, last, wiVars, rvVars, app, history,
                   toasts, timers, timeouts, backend>>

\* saveLearningCard settles: lines 118-128, LearningCard.handleSaved (34-37)
\* and the start of App.handleCardSaved (index.ts 424-428)
SaveSettled(i, resp) ==
    /\ net[i].owner = "Dialog"
    /\ net[i].endpoint = "saveLearningCard"
    /\ Len(toasts) < MaxToasts
    /\ LET res == request(resp)
           target == net[i].closure.collectionId
       IN  /\ cookie' = CookieAfterRequest(cookie, res)
           /\ appEvent' = DialogEvent("saveSettled", res.ok)
           /\ IF res.ok
              THEN /\ backend' = [backend EXCEPT !.saved = Append(@, target)]
                   /\ showToast(Toast_Saved(target), "success")
                   /\ net' = RemoveAt(net, i) \o
                            (IF app.isAuthenticated
                             THEN <<AppFetch("profile", Closure(<<>>, app.isAuthenticated, 0, "",
                                                                app.user, "handleCardSaved"))>>
                             ELSE <<>>)
                   /\ saveDialog' = IF saveDialog.mounted
                                    THEN [saveDialog EXCEPT !.open = FALSE, !.isSaving = FALSE]
                                    ELSE saveDialog
              ELSE /\ backend' = backend
                   /\ showToast(Toast_SaveFailed, "error")
                   /\ net' = RemoveAt(net, i)
                   /\ saveDialog' = IF saveDialog.mounted
                                    THEN [saveDialog EXCEPT !.isSaving = FALSE]
                                    ELSE saveDialog
    /\ UNCHANGED <<wordCache, now, ticks, calls, last, wiVars, rvVars, app, history>>

\* the getProfile of handleCardSaved settles (index.ts 427-434): the view
\* switches to the collections and the card screen is unmounted
CardSavedProfileSettled(i, resp) ==
    /\ net[i].owner = "App"
    /\ net[i].endpoint = "profile"
    /\ net[i].closure.from = "handleCardSaved"
    /\ Len(history.entries) < MaxHistory
    /\ LET res == request(resp)
       IN  /\ cookie' = CookieAfterRequest(cookie, res)
           /\ appEvent' = DialogEvent("cardSavedProfileSettled", res.ok)
           /\ app' = [app EXCEPT !.user = IF res.ok THEN res.data ELSE @,
                                  !.view = "collections"]
    /\ history' = PushState(history, "collections")
    /\ saveDialog' = DialogUnmounted
    /\ net' = RemoveAt(net, i)
    /\ UNCHANGED <<wordCache, now, ticks, calls, last, wiVars, rvVars, toasts, timers, timeouts,
                   backend>>

\* what the backend answers to the calls of the dialog
CreateResponses == {HttpResponse("200", "json", "", "created", "")}
SaveResponses == {HttpResponse("200", "json", "", "saved", "")}

-----------------------------------------------------------------------------
(* Specifications *)

\* no review session has been opened
ReviewIdle ==
    /\ review = ReviewUnmounted([parent |-> "CollectionsPage",
                                 component |-> "EnhancedReviewSession"], 0)
    /\ reveals = <<>>
    /\ rvLog = NoReviewLog
    /\ rvEvent = NoReviewEvent

\* no learning card is on the screen, so no save dialog either
DialogIdle ==
    /\ saveDialog = DialogUnmounted
    /\ backend = NoBackend

\* what the backend answers to a lookup in the cache scenarios
LookupResponses ==
    {HttpResponse("200", "json", "", d, "") : d \in Payloads}
        \cup {HttpResponse("429", "json", "Too many requests", "none", ""),
              HttpResponse("500", "json", "", "none", "")}

InitApi ==
    /\ ReviewIdle
    /\ DialogIdle
    /\ localStorage = "null"
    /\ wordInput = WordInputMounted(localStorage)
    /\ wiEvent = NoWiEvent
    /\ app = AppInit(FALSE)
    /\ history = [entries |-> <<"/">>, index |-> 1]
    /\ toasts = <<>>
    /\ timers = {}
    /\ timeouts = NoTimeouts
    /\ appEvent = NoAppEvent
    /\ cookie \in {NoCookie, "t1"}
    /\ wordCache = [k \in CacheKeys |-> NoEntry]
    /\ now = 0
    /\ ticks = 0
    /\ net = <<>>
    /\ calls = <<>>
    /\ last = NoDelivery

\* the client used for authentication and authenticated requests
NextApi ==
    \/ \E ep \in {"login", "register", "profile"} : ApiCall(ep)
    \/ ApiLogout
    \/ \E i \in 1..Len(net), resp \in AuthResponses \cup ErrorResponses \cup {FetchThrows} :
            ApiSettleAuth(i, resp)
    \/ \E i \in 1..Len(net), resp \in DataResponses \cup ErrorResponses \cup {FetchThrows} :
            ApiSettleProfile(i, resp)

SpecApi == InitApi /\ [][NextApi]_vars

InitCache ==
    /\ ReviewIdle
    /\ DialogIdle
    /\ localStorage = "null"
    /\ wordInput = WordInputMounted(localStorage)
    /\ wiEvent = NoWiEvent
    /\ app = AppInit(FALSE)
    /\ history = [entries |-> <<"/">>, index |-> 1]
    /\ toasts = <<>>
    /\ timers = {}
    /\ timeouts = NoTimeouts
    /\ appEvent = NoAppEvent
    /\ cookie = NoCookie
    /\ wordCache = [k \in CacheKeys |-> NoEntry]
    /\ now = 0
    /\ ticks = 0
    /\ net = <<>>
    /\ calls = <<>>
    /\ last = NoDelivery

\* the client used for enhanced word lookups over time
NextCache ==
    \/ \E w \in ApiWords : ApiGetEnhancedWordInfo(w)
    \/ \E i \in 1..Len(net), resp \in LookupResponses : ApiSettleEnhanced(i, resp)
    \/ \E d \in TimeSteps : Tick(d)

SpecCache == InitCache /\ [][NextCache]_vars

InitWordInput ==
    /\ ReviewIdle
    /\ DialogIdle
    /\ cookie = NoCookie
    /\ wordCache = [k \in CacheKeys |-> NoEntry]
    /\ now = 0
    /\ ticks = 0
    /\ net = <<>>
    /\ calls = <<>>
    /\ last = NoDelivery
    /\ localStorage \in {"null", "2"}
    /\ wordInput = WordInputMounted(localStorage)
    /\ wiEvent = NoWiEvent
    /\ \E auth \in BOOLEAN : app = AppInit(auth)
    /\ history = [entries |-> <<"/">>, index |-> 1]
    /\ toasts = <<>>
    /\ timers = {}
    /\ timeouts = NoTimeouts
    /\ appEvent = NoAppEvent

NextWordInput ==
    \/ \E w \in TypedWords : TypeWord(w)
    \/ \E w \in suggestedWords : ClickSuggestedWord(w)
    \/ handleSubmit
    \/ \E i \in 1..Len(net), resp \in DataResponses \cup ErrorResponses \cup {FetchThrows} :
            SubmitLookupSettled(i, resp)
    \/ \E i \in 1..Len(net), resp \in DataResponses \cup ErrorResponses \cup {FetchThrows} :
            SubmitFallbackSettled(i, resp)
    \/ handleBackToSearch
    \/ \E d \in TimeSteps : Tick(d)

SpecWordInput == InitWordInput /\ [][NextWordInput]_vars

\* a guest on the search screen, which can be left and come back to
InitGuest ==
    /\ InitWordInput
    /\ ~app.isAuthenticated

NextGuest ==
    \/ \E w \in {<<"a">>, <<" ">>} : TypeWord(w)
    \/ handleSubmit
    \/ \E i \in 1..Len(net), resp \in DataResponses \cup ErrorResponses \cup {FetchThrows} :
            SubmitLookupSettled(i, resp)
    \/ \E i \in 1..Len(net), resp \in DataResponses \cup ErrorResponses \cup {FetchThrows} :
            SubmitFallbackSettled(i, resp)
    \/ handleBackToSearch
    \/ WordInputRemounted
    \/ setShowAuth(FALSE)

SpecGuest == InitGuest /\ [][NextGuest]_vars

InitialPaths == {"/", "/collections", "/other"}

\* the page is loaded: useState initial values and the checkAuth effect (lines 259-274)
InitApp ==
    /\ ReviewIdle
    /\ DialogIdle
    /\ wordCache = [k \in CacheKeys |-> NoEntry]
    /\ now = 0
    /\ ticks = 0
    /\ calls = <<>>
    /\ last = NoDelivery
    /\ localStorage = "null"
    /\ wordInput = WordInputMounted(localStorage)
    /\ wiEvent = NoWiEvent
    /\ cookie \in {NoCookie, "t1"}
    /\ \E path \in InitialPaths :
        /\ history = [entries |-> <<path>>, index |-> 1]
        /\ app = AppMounted(path, FALSE, "null")
    /\ net = IF isAuthenticated(cookie)
             THEN <<AppFetch("profile", Closure(<<>>, FALSE, 0, "", "null", "checkAuth"))>>
             ELSE <<>>
    /\ toasts = <<>>
    /\ timers = {}
    /\ timeouts = NoTimeouts
    /\ appEvent = NoAppEvent

\* the root controller switching views, signing in and out
NextNav ==
    \/ \E i \in 1..Len(net), resp \in ProfileResponses \cup FailureResponses :
            CheckAuthSettled(i, resp)
    \/ \E ep \in {"login", "register"} : handleLogin(ep)
    \/ \E i \in 1..Len(net), resp \in TokenResponses \cup FailureResponses : LoginSettled(i, resp)
    \/ \E i \in 1..Len(net), resp \in ProfileResponses \cup FailureResponses :
            LoginProfileSettled(i, resp)
    \/ handleLogout
    \/ \E open \in BOOLEAN : setShowAuth(open)
    \/ handleViewCollection
    \/ handleViewLearningCenter
    \/ handleBackFromCollections
    \/ handleBackFromLearningCenter
    \/ \E delta \in {-1, 1} : handlePopState(delta)
    \/ \E id \in ToastIds : dismissToast(id)

SpecNav == InitApp /\ [][NextNav]_vars

\* the page is loaded with the token of an earlier session in the cookie: the
\* checkAuth effect has sent its getProfile (lines 259-274)
InitSession ==
    /\ ReviewIdle
    /\ DialogIdle
    /\ wordCache = [k \in CacheKeys |-> NoEntry]
    /\ now = 0
    /\ ticks = 0
    /\ calls = <<>>
    /\ last = NoDelivery
    /\ localStorage = "null"
    /\ wordInput = WordInputMounted(localStorage)
    /\ wiEvent = NoWiEvent
    /\ cookie = "t0"
    /\ history = [entries |-> <<"/">>, index |-> 1]
    /\ app = AppMounted("/", FALSE, "null")
    /\ net = <<AppFetch("profile", Closure(<<>>, FALSE, 0, "", "null", "checkAuth"))>>
    /\ toasts = <<>>
    /\ timers = {}
    /\ timeouts = NoTimeouts
    /\ appEvent = NoAppEvent

\* signing in and out while the session check is in flight
NextSession ==
    \/ \E i \in 1..Len(net), resp \in ProfileResponses \cup FailureResponses \cup {FetchThrows} :
            CheckAuthSettled(i, resp)
    \/ \E open \in BOOLEAN : setShowAuth(open)
    \/ \E ep \in {"login", "register"} : handleLogin(ep)
    \/ \E i \in 1..Len(net), resp \in TokenResponses \cup FailureResponses : LoginSettled(i, resp)
    \/ \E i \in 1..Len(net), resp \in ProfileResponses \cup FailureResponses :
            LoginProfileSettled(i, resp)
    \/ handleLogout
    \/ \E id \in ToastIds : dismissToast(id)

SpecSession == InitSession /\ [][NextSession]_vars

\* the learn view after the session check: signed in or not
InitLearn ==
    /\ ReviewIdle
    /\ DialogIdle
    /\ wordCache = [k \in CacheKeys |-> NoEntry]
    /\ now = 0
    /\ ticks = 0
    /\ calls = <<>>
    /\ last = NoDelivery
    /\ localStorage = "null"
    /\ wordInput = WordInputMounted(localStorage)
    /\ wiEvent = NoWiEvent
    /\ \E auth \in BOOLEAN :
        /\ cookie = IF auth THEN "t1" ELSE NoCookie
        /\ app = AppInit(auth)
    /\ history = [entries |-> <<"/">>, index |-> 1]
    /\ net = <<>>
    /\ toasts = <<>>
    /\ timers = {}
    /\ timeouts = NoTimeouts
    /\ appEvent = NoAppEvent

\* the root controller in the learn view: search, meaning selection, card
NextLearn ==
    \/ \E sel \in {"", "def1"}, cus \in {"", "own"} : handleWordSubmit("w1", "m1", sel, cus)
    \/ \E m \in {"def1", "own"} : handleMeaningClick(m)
    \/ \E i \in 1..Len(net), resp \in CardResponses \cup FailureResponses : GenerateSettled(i, resp)
    \/ \E i \in 1..Len(net), resp \in LearnResponses \cup FailureResponses : LearnSettled(i, resp)
    \/ \E i \in 1..Len(net), resp \in ProfileResponses \cup FailureResponses :
            LearnedProfileSettled(i, resp)
    \/ handleLogout
    \/ handleReset
    \/ \E id \in ToastIds : dismissToast(id)

SpecLearn == InitLearn /\ [][NextLearn]_vars

\* a signed-in user on a screen that can open a review session
InitReview ==
    /\ wordCache = [k \in CacheKeys |-> NoEntry]
    /\ now = 0
    /\ ticks = 0
    /\ calls = <<>>
    /\ last = NoDelivery
    /\ localStorage = "null"
    /\ wordInput = WordInputMounted(localStorage)
    /\ wiEvent = NoWiEvent
    /\ cookie = "t1"
    /\ net = <<>>
    /\ toasts = <<>>
    /\ timers = {}
    /\ timeouts = NoTimeouts
    /\ appEvent = NoAppEvent
    /\ \E mount \in ReviewMounts :
        /\ review = ReviewUnmounted(mount, 0)
        /\ LET path == IF mount.parent = "CollectionsPage" THEN "/collections" ELSE "/learning"
           IN  /\ app = AppMounted(path, TRUE, "u1")
               /\ history = [entries |-> <<path>>, index |-> 1]
    /\ reveals = <<>>
    /\ rvLog = NoReviewLog
    /\ rvEvent = NoReviewEvent
    /\ DialogIdle

\* review sessions opened, worked through and closed
NextReview ==
    \/ onStartReview
    \/ \E i \in 1..Len(net), resp \in DueResponses : DueSettled(i, resp)
    \/ \E i \in 1..Len(net), resp \in ReviewFailures : DueSettled(i, resp)
    \/ \E i \in 1..Len(net), resp \in QuestionResponses \cup ReviewFailures :
            QuestionSettled(i, resp)
    \/ \E rating \in ReviewRatings : handleRating(rating)
    \/ \E i \in 1..Len(net), resp \in RecordResponses \cup ReviewFailures :
            RecordSettled(i, resp)
    \/ chooseOption
    \/ typeAnswer
    \/ handleShowAnswer
    \/ revealTimerFired
    \/ onClose
    \/ \E id \in ToastIds : toastDismissed(id)
    \/ \E i \in 1..Len(net), resp \in ProfileResponses \cup ReviewFailures :
            CollectionsProfileSettled(i, resp)

SpecReview == InitReview /\ [][NextReview]_vars

\* the ToastProvider alone, with no toast on the screen
InitToast ==
    /\ ReviewIdle
    /\ DialogIdle
    /\ cookie = NoCookie
    /\ wordCache = [k \in CacheKeys |-> NoEntry]
    /\ now = 0
    /\ ticks = 0
    /\ net = <<>>
    /\ calls = <<>>
    /\ last = NoDelivery
    /\ localStorage = "null"
    /\ wordInput = WordInputMounted(localStorage)
    /\ wiEvent = NoWiEvent
    /\ app = AppInit(FALSE)
    /\ history = [entries |-> <<"/">>, index |-> 1]
    /\ toasts = <<>>
    /\ timers = {}
    /\ timeouts = NoTimeouts
    /\ appEvent = NoAppEvent

ToastMessages == {Toast_GenerateFailed, Toast_NoCardsDue}

ToastVariants == {"default", "success", "error"}

\* toasts shown by any consumer, closed by the user and dismissed by their timers
NextToast ==
    \/ \E message \in ToastMessages, variant \in ToastVariants : useToast(message, variant)
    \/ \E id \in ToastIds : dismissToast(id)
    \/ \E id \in ToastIds : toastTimerFired(id)
    \/ \E d \in ToastTimeSteps : ToastTick(d)

SpecToast == InitToast /\ [][NextToast]_vars

\* timers expire and the clock moves on
SpecToastLive ==
    /\ SpecToast
    /\ WF_vars(\E d \in ToastTimeSteps : ToastTick(d))
    /\ \A id \in ToastIds : WF_vars(toastTimerFired(id))

\* a signed-in user on the card screen of a freshly generated learning card
InitDialog ==
    /\ ReviewIdle
    /\ wordCache = [k \in CacheKeys |-> NoEntry]
    /\ now = 0
    /\ ticks = 0
    /\ calls = <<>>
    /\ last = NoDelivery
    /\ localStorage = "null"
    /\ wordInput = WordInputMounted(localStorage)
    /\ wiEvent = NoWiEvent
    /\ cookie = "t1"
    /\ app = [AppInit(TRUE) EXCEPT !.step = 3, !.word = "w1", !.meanings = "m1",
                                   !.learningCard = "card1"]
    /\ history = [entries |-> <<"/">>, index |-> 1]
    /\ net = <<>>
    /\ toasts = <<>>
    /\ timers = {}
    /\ timeouts = NoTimeouts
    /\ appEvent = NoAppEvent
    /\ \E collections \in InitialCollections :
        /\ saveDialog = DialogMounted(collections)
        /\ backend = Backend(collections)

\* collections chosen and created and the card saved from the dialog
NextDialog ==
    \/ handleSaveClick
    \/ onOpenChange
    \/ \E id \in {"c1", "c2"} \cup {NewIds[k] : k \in 1..MaxCreated} : setSelectedCollectionId(id)
    \/ \E show \in BOOLEAN : setShowCreateForm(show)
    \/ \E name \in {"", "mine"} : setNewCollection(name)
    \/ handleCreateCollection
    \/ \E i \in 1..Len(net), resp \in CreateResponses \cup ReviewFailures :
            CreateSettled(i, resp)
    \/ refreshTimerFired
    \/ \E i \in 1..Len(net), resp \in ProfileResponses \cup ReviewFailures :
            CardProfileSettled(i, resp)
    \/ handleSaveToCollection
    \/ \E i \in 1..Len(net), resp \in SaveResponses \cup ReviewFailures : SaveSettled(i, resp)
    \/ \E i \in 1..Len(net), resp \in ProfileResponses \cup ReviewFailures :
            CardSavedProfileSettled(i, resp)
    \/ \E id \in ToastIds : dismissToast(id)

SpecDialog == InitDialog /\ [][NextDialog]_vars

-----------------------------------------------------------------------------
(* Properties of the API client *)

\* C1: after a request answered with 401 the caller receives the rejection
\* 'Authentication required' with the token already removed, so that
\* isAuthenticated() is false, and isAuthenticated() turns true again only in
\* the step in which a login or register response stores a token.
C1_TokenClearedOn401 ==
    /\ [](last.resp.status = "401" =>
            /\ ~last.ok
            /\ last.message = Msg_AuthRequired
            /\ ~isAuthenticated(cookie))
    /\ [][(~isAuthenticated(cookie) /\ isAuthenticated(cookie')) =>
            /\ last'.op \in {"login", "register"}
            /\ last'.ok
            /\ last'.resp.token = cookie']_vars

C1_Witness ==
    /\ last.op = "profile"
    /\ last.resp.status = "401"
    /\ isAuthenticated(last.cookieBefore)
    /\ ~isAuthenticated(cookie)

\* C6: every rejection of request is authentication-required, quota-exceeded,
\* a generic HTTP-status error or the network error; a fetch that throws is
\* delivered as 'Network error'.
C6_FourKinds ==
    ~last.ok =>
        /\ \/ last.message \in {Msg_AuthRequired, Msg_Quota, Msg_Network}
           \/ /\ last.resp.kind = "http"
              /\ last.resp.status \notin {"200", "401", "429"}
        /\ last.resp.kind = "throw" => last.message = Msg_Network

\* C7: a non-2xx response other than 401 and 429 whose JSON body has a
\* non-empty error field is rejected with that field as the message; the
\* 'HTTP <status>' message is used only without such a field.
C7_ErrorFieldIsMessage ==
    (/\ last.resp.kind = "http"
     /\ last.resp.status \notin {"200", "401", "429"}
     /\ last.resp.body = "json"
     /\ last.resp.error # "")
        => /\ ~last.ok
           /\ last.message = <<last.resp.error>>

\* C2 as stated: of two calls for the same word up to case, the earlier one
\* successful and the later one made less than 30 minutes after it, both return
\* the same payload and only one of them issues a network request.
C2_OneRequestPerPair ==
    \A i, j \in 1..Len(calls) :
        (/\ i < j
         /\ ToLowerCase(calls[i].word) = ToLowerCase(calls[j].word)
         /\ calls[i].done /\ calls[i].ok
         /\ calls[j].done
         /\ calls[j].start - calls[i].start < 30 * 60 * 1000)
            => /\ calls[j].ok
               /\ calls[j].data = calls[i].data
               /\ ~(calls[i].issued /\ calls[j].issued)

\* C2 amended: a call that finds an entry for the lowercased word stored less
\* than 30 minutes earlier returns the payload of that entry without a network
\* request; a call that finds no entry, or one stored 30 minutes or more
\* earlier, issues a network request.
C2_FreshEntryServed ==
    \A k \in 1..Len(calls) :
        /\ calls[k].found = "fresh" =>
                /\ ~calls[k].issued
                /\ calls[k].done /\ calls[k].ok
                /\ calls[k].data = calls[k].foundData
        /\ calls[k].found \in {"none", "stale"} => calls[k].issued

C2_Witness ==
    /\ Len(calls) >= 2
    /\ calls[1].issued /\ calls[1].done /\ calls[1].ok
    /\ calls[2].word # calls[1].word
    /\ calls[2].start > calls[1].start
    /\ calls[2].found = "fresh"
    /\ ~calls[2].issued
    /\ calls[2].data = calls[1].data

\* C5: a lookup answered with 429 resolves with the payload of the entry the
\* cache holds for the word at that moment, and rejects with quota-exceeded
\* only when the cache holds no entry.
C5_CacheAtQuotaTime ==
    (last.op = "enhanced" /\ last.resp.status = "429") =>
        IF last.entryAtSettle.present
        THEN last.ok /\ last.data = last.entryAtSettle.data
        ELSE ~last.ok /\ last.message = Msg_Quota

-----------------------------------------------------------------------------
(* Properties of the word search screen *)

MeaningsFetches == SelectSeq(net, LAMBDA r : r.owner = "WordInput" /\ r.endpoint = "meanings")

WordInputFetches == SelectSeq(net, LAMBDA r : r.owner = "WordInput")

\* C3: when the enhanced lookup of a search fails with quota-exceeded, exactly
\* one plain-meanings request for the same trimmed word is in flight; when it is
\* answered successfully its word and meanings are shown without analysis, and
\* when it fails 'Word not found' is shown with no word data.
C3_QuotaFallback ==
    /\ (wiEvent.phase = "lookup-settled" /\ wiEvent.message = Msg_Quota) =>
            /\ Len(MeaningsFetches) = 1
            /\ MeaningsFetches[1].word = wiEvent.lookup
            /\ MeaningsFetches[1].word = Trim(MeaningsFetches[1].word)
            /\ wordInput.wordData.isNull
    /\ wiEvent.phase = "fallback-settled" =>
            /\ Len(WordInputFetches) = 0
            /\ IF request(wiEvent.resp).ok
               THEN /\ wordInput.wordData =
                            [isNull |-> FALSE,
                             word |-> Json(request(wiEvent.resp).data).word,
                             meanings |-> Json(request(wiEvent.resp).data).meanings,
                             phonetic |-> "", analysis |-> "undefined"]
                    /\ wordInput.error = ""
               ELSE /\ wordInput.error = Err_NotFound
                    /\ wordInput.wordData.isNull

C3_Witness ==
    /\ wiEvent.phase = "fallback-settled"
    /\ wiEvent.lookup = <<"A">>
    /\ wordInput.word = <<"b">>
    /\ wiEvent.resp.status = "200"
    /\ wordInput.wordData.meanings = "m1"

\* C4: a search whose lookup request fails with anything but quota-exceeded
\* (a fetch that throws, 404, any other status), or whose fallback request
\* fails, ends in the 'Word not found' state: error message set, no word data,
\* loading false, the handler finished.
C4_NotFoundState ==
    (\/ /\ wiEvent.phase = "lookup-settled"
        /\ wiEvent.message \notin {<<>>, Msg_Quota}
     \/ /\ wiEvent.phase = "fallback-settled"
        /\ ~request(wiEvent.resp).ok)
        => /\ wordInput.error = Err_NotFound
           /\ wordInput.wordData.isNull
           /\ ~wordInput.loading
           /\ Len(WordInputFetches) = 0

C4_Witness ==
    /\ wiEvent.phase = "lookup-settled"
    /\ wiEvent.resp.kind = "throw"
    /\ wordInput.error = Err_NotFound
    /\ ~wordInput.loading

-----------------------------------------------------------------------------
(* Properties of the root controller *)

\* C8: a search submission that arrives with a selected or custom meaning
\* starts card generation and leaves step at 1, and the success of that
\* generation sets step to 3; a submission with no meaning sets step to 2 and
\* starts nothing; step becomes 2 in no other way.
C8_SubmitJumps ==
    [][/\ (appEvent'.op = "handleWordSubmit" /\ appEvent'.resolved) =>
            /\ app.step = 1 /\ app'.step = 1
            /\ app'.loading
            /\ Len(net') = Len(net) + 1
            /\ net'[Len(net')].endpoint = "generate"
            /\ net'[Len(net')].closure.from = "search"
       /\ (appEvent'.op = "handleWordSubmit" /\ ~appEvent'.resolved) =>
            /\ app'.step = 2
            /\ net' = net
       /\ (appEvent'.op = "generateSettled" /\ appEvent'.ok /\ appEvent'.from = "search") =>
            /\ app'.step = 3
            /\ app'.learningCard # "null"
       /\ (app'.step = 2 /\ app.step # 2) =>
            appEvent'.op = "handleWordSubmit" /\ ~appEvent'.resolved]_vars

C8_Witness ==
    /\ appEvent.op = "generateSettled"
    /\ appEvent.ok
    /\ appEvent.from = "search"
    /\ app.step = 3
    /\ app.learningCard = "card1"

\* C9: when the generation started by a meaning selection succeeds, the card is
\* stored and step becomes 3; when it fails, step is left as it was (2), no
\* card is stored, an error toast is shown; in both cases loading is false
\* afterwards.
C9_SelectionOutcome ==
    [][(appEvent'.op = "generateSettled" /\ appEvent'.from = "selector") =>
            /\ ~app'.loading
            /\ IF appEvent'.ok
               THEN /\ app'.step = 3
                    /\ app'.learningCard = "card1"
               ELSE /\ app'.step = app.step
                    /\ app'.learningCard = app.learningCard
                    /\ app.step = 2 => app'.learningCard = "null"
                    /\ Len(toasts') = Len(toasts) + 1
                    /\ toasts'[Len(toasts')].message = Toast_GenerateFailed
                    /\ toasts'[Len(toasts')].variant = "error"]_vars

C9_Witness ==
    /\ appEvent.op = "generateSettled"
    /\ appEvent.from = "selector"
    /\ ~appEvent.ok
    /\ app.step = 2
    /\ ~app.loading
    /\ app.learningCard = "null"
    /\ Len(toasts) = 1

\* C10: a 'view collection' or 'view learning center' request made while the
\* controller is not authenticated opens the auth prompt and leaves the view
\* and the browser history unchanged; made while authenticated it switches the
\* view to collections or learning.
C10_ViewRequests ==
    [][/\ appEvent'.op = "handleViewCollection" =>
            IF ~app.isAuthenticated
            THEN app'.showAuth /\ app'.view = app.view /\ history' = history
            ELSE app'.view = "collections"
       /\ appEvent'.op = "handleViewLearningCenter" =>
            IF ~app.isAuthenticated
            THEN app'.showAuth /\ app'.view = app.view /\ history' = history
            ELSE app'.view = "learning"]_vars

C10_Witness ==
    /\ appEvent.op = "handleViewLearningCenter"
    /\ ~app.isAuthenticated
    /\ app.showAuth
    /\ app.view = "collections"
    /\ pathname = "/collections"

\* C11: in every reachable state of the root controller, the view being
\* collections or learning implies that the controller holds the user as
\* authenticated.
C11_ViewsRequireAuth ==
    app.view \in {"collections", "learning"} => app.isAuthenticated

\* C12: the view always equals the view mapped from the current URL path, and
\* the browser's back button pressed on '/collections', reached from '/',
\* restores path '/' and the learn view.
C12_ViewMatchesPath ==
    /\ [](app.view = ViewOfPath(pathname))
    /\ [][(/\ appEvent'.op = "handlePopState"
            /\ history.entries = <<"/", "/collections">>
            /\ history.index = 2
            /\ history'.index = 1)
            => (/\ history'.entries[history'.index] = "/"
                /\ app'.view = "learn")]_vars

\* back was pressed after a switch from '/' to the collections view
C12_Witness ==
    /\ appEvent.op = "handlePopState"
    /\ history.entries = <<"/", "/collections">>
    /\ history.index = 1
    /\ app.view = "learn"

-----------------------------------------------------------------------------
(* Properties of the review sessions *)

\* C13: pressing a rating r submits one record request carrying r for the card
\* at the current index; when the request succeeds and that card was not the
\* last of the list it was pressed on, the index of the session grows by
\* exactly one; when the request fails, the index is unchanged, completion is
\* not signalled and the error toast 'Failed to record review' is shown.
C13_RatingRoundTrip ==
    [][ /\ rvEvent'.op = "handleRating"
            => /\ Len(net') = Len(net) + 1
               /\ SubSeq(net', 1, Len(net)) = net
               /\ net'[Len(net')].endpoint = "record"
               /\ net'[Len(net')].closure.rating = rvEvent'.rating
               /\ rvEvent'.rating \in 1..4
               /\ net'[Len(net')].closure.card = review.cards[review.currentIndex + 1]
        /\ (/\ rvEvent'.op = "recordSettled"
            /\ rvEvent'.ok
            /\ ~rvEvent'.completed
            /\ review.open
            /\ review.session = rvEvent'.session)
            => /\ review'.currentIndex = review.currentIndex + 1
               /\ rvLog'.completes = rvLog.completes
        /\ (rvEvent'.op = "recordSettled" /\ ~rvEvent'.ok)
            => /\ review'.currentIndex = review.currentIndex
               /\ review'.open = review.open
               /\ rvLog'.completes = rvLog.completes
               /\ Len(toasts') = Len(toasts) + 1
               /\ toasts'[Len(toasts')].message = Toast_RecordFailed
               /\ toasts'[Len(toasts')].variant = "error" ]_vars

\* the rating of the first of two cards was recorded and the session moved on
C13_Witness ==
    /\ rvEvent.op = "recordSettled"
    /\ rvEvent.ok
    /\ rvEvent.rating = 1
    /\ ~rvEvent.completed
    /\ review.open
    /\ review.cards = <<"c1", "c2">>
    /\ review.currentIndex = 1
    /\ rvLog.recorded = <<"c1">>

\* C14: a session loaded with one or more due cards signals onComplete at most
\* once.
C14_CompletesOnce ==
    rvLog.firstDue = "some" => rvLog.completes <= 1

\* C15: between the opening of a session and its close or completion the
\* due-card batch is fetched once.
C15_DueFetchedOnce ==
    rvLog.dueFetches <= 1

\* C16: the step in which the due-card fetch made at the opening of a session
\* returns zero cards signals onComplete and unmounts the session, and a
\* session whose opening fetch is pending or returned zero cards renders no
\* flashcard UI.
C16_EmptyBatchCompletes ==
    /\ [][(rvLog.firstDue = "pending" /\ rvLog'.firstDue = "zero")
            => /\ rvEvent'.op = "dueSettled"
               /\ rvLog'.completes = rvLog.completes + 1
               /\ ~review'.open]_vars
    /\ [](rvLog.firstDue \in {"pending", "zero"} => ~FlashcardUI(review))

\* the opening fetch returned no cards
C16_Witness ==
    /\ rvEvent.op = "dueSettled"
    /\ rvLog.firstDue = "zero"
    /\ rvLog.completes = 1
    /\ ~review.open

\* the correct answer of the loaded question is on the screen
\* (EnhancedReviewSession.tsx 267, 280, 433)
AnswerShown(rv) ==
    /\ rv.component = "EnhancedReviewSession"
    /\ FlashcardUI(rv)
    /\ CurrentCardDefined(rv)
    /\ rv.showAnswer
    /\ rv.currentQuestion # NoQuestion

\* C17: in the question-based session the answer of the loaded question is
\* shown only after the user answered that question or asked for its answer
\* since it was loaded.
C17_AnswerAfterAction ==
    AnswerShown(review) => rvLog.acted

\* C18: once a rating has been recorded, the screen behind the session is not
\* shown again before a refetch of the profile has been issued.
C18_RefetchBeforeShown ==
    ~(rvLog.dirty /\ ~review.open)

-----------------------------------------------------------------------------
(* Properties of the root controller: requests in flight and the session *)

\* the generateLearningCard requests in flight
GenerateFetches == {i \in 1..Len(net) : net[i].endpoint = "generate"}

\* C19: at most one generateLearningCard request is in flight at any time, and
\* the loading flag is true for as long as one is in flight.
C19_OneGenerationInFlight ==
    /\ Cardinality(GenerateFetches) <= 1
    /\ GenerateFetches # {} => app.loading

\* C20: in no state has the token been cleared (by a 401) while the root
\* controller still holds the user as authenticated or holds a user.
C20_SignedOutAfter401 ==
    cookie = NoCookie => (~app.isAuthenticated /\ app.user = "null")

-----------------------------------------------------------------------------
(* Properties of the ToastProvider *)

Visible(id) == \E k \in 1..Len(toasts) : toasts[k].id = id

\* C21: every toast that is shown is removed again: by its own timer when
\* TOAST_TIMEOUT has passed since it was shown, or before that by the Close
\* button, and then its timeout is cancelled, so that no timeout is pending
\* for a toast that is gone and a timer that fires always removes its toast.
C21_ToastsExpire ==
    /\ \A id \in ToastIds : Visible(id) ~> ~Visible(id)
    /\ [](\A id \in ToastIds : timeouts[id] # NoTimeout => Visible(id))
    /\ [][\A id \in ToastIds :
            /\ (Visible(id) /\ ~Visible(id)') =>
                    /\ \/ appEvent'.op = "toastTimerFired" /\ timeouts[id] = 0
                       \/ appEvent'.op = "dismissToast" /\ timeouts[id] \in 0..TOAST_TIMEOUT
                    /\ timeouts'[id] = NoTimeout
                    /\ id \notin timers'
            /\ (appEvent'.op = "toastTimerFired" /\ timeouts[id] = 0 /\ timeouts'[id] = NoTimeout
                    /\ Len(toasts') = Len(toasts))
                => FALSE]_vars

\* a toast has expired while a younger one is still on the screen
C21_Witness ==
    /\ appEvent.op = "toastTimerFired"
    /\ Len(toasts) = 1
    /\ timers = {toasts[1].id}
    /\ timeouts[toasts[1].id] = TOAST_TIMEOUT \div 3

\* C22: several toasts are visible at once, and a dismissal, by the timer or
\* by Close, removes exactly one toast: the others keep their place, message,
\* variant and pending timeout.
C22_DismissRemovesOne ==
    [][appEvent'.op \in {"dismissToast", "toastTimerFired"} =>
        \E k \in 1..Len(toasts) :
            /\ toasts' = RemoveAt(toasts, k)
            /\ \A id \in ToastIds \ {toasts[k].id} :
                    /\ timeouts'[id] = timeouts[id]
                    /\ id \in timers' <=> id \in timers]_vars

\* the middle one of three toasts with the same message has been closed
C22_Witness ==
    /\ appEvent.op = "dismissToast"
    /\ Len(toasts) = MaxVisible - 1
    /\ toasts[1].id = 1
    /\ toasts[2].id = 3
    /\ toasts[1].message = toasts[2].message
    /\ timeouts[1] = 0
    /\ timeouts[3] = TOAST_TIMEOUT
    /\ timers = {1, 3}

-----------------------------------------------------------------------------
(* Properties of the guest-usage counter *)

\* a lookup of handleSubmit has come to its end or gone on to the fallback
GuestLookupSettled ==
    /\ wiEvent'.op = "handleSubmit"
    /\ wiEvent'.phase \in {"cached", "lookup-settled", "fallback-settled"}
    /\ net' # net \/ wordInput' # wordInput

\* C23: for a guest the stored counter grows by exactly one with every lookup
\* that succeeds (from the enhanced endpoint, the cache or the fallback) and
\* stays as it is when a lookup fails; a mount reads it from local storage;
\* and with a counter of GUEST_API_LIMIT or more, submitting a word sends no
\* request and opens the login prompt.
C23_GuestCounter ==
    /\ [][GuestLookupSettled =>
            IF wiEvent'.message = <<>>
            THEN MountGuestApiCount(localStorage') = MountGuestApiCount(localStorage) + 1
            ELSE localStorage' = localStorage]_vars
    /\ [][wiEvent'.op = "mount" =>
            wordInput'.guestApiCount = MountGuestApiCount(localStorage)]_vars
    /\ [][(handleSubmit /\ Trim(wordInput.word) # <<>>
                /\ wordInput.guestApiCount >= GUEST_API_LIMIT)
            => (net' = net /\ app'.showAuth)]_vars

-----------------------------------------------------------------------------
(* Properties of the token under concurrent requests *)

\* C24: the token is removed only by a logout or by the settlement of a
\* request that was sent with that same token: a token stored by a login or
\* register is never removed by the late failure of a request sent before it.
C24_TokenKeptFromOlderRequests ==
    [][(cookie # NoCookie /\ cookie' = NoCookie) =>
            \/ appEvent'.op = "handleLogout"
            \/ \E i \in 1..Len(net) : net' = RemoveAt(net, i) /\ net[i].token = cookie]_vars

-----------------------------------------------------------------------------
(* Properties of the root controller under late responses *)

\* C25: after a reset, a logout or a switch of view (each clears the word) and
\* until a new search is submitted (which sets the word), the learn flow is at
\* step 1 with no meanings and no learning card, whatever arrives meanwhile.
C25_StaysResetUntilSearch ==
    app.word = "" => (app.step = 1 /\ app.meanings = "[]" /\ app.learningCard = "null")

\* C28: the root controller holds a user exactly when it is authenticated.
C28_AuthenticatedIffUser == app.isAuthenticated <=> app.user # "null"

\* C30: the step of the learn flow is 1, 2 or 3, at step 3 a learning card is
\* stored, and a reset or a logout sets step 1 and clears the word, the
\* meanings and the learning card in one go.
C30_StepAndCard ==
    /\ [](app.step \in 1..3 /\ (app.step = 3 => app.learningCard # "null"))
    /\ [][appEvent'.op \in {"handleReset", "handleLogout"} =>
            /\ app'.step = 1
            /\ app'.word = ""
            /\ app'.meanings = "[]"
            /\ app'.learningCard = "null"]_vars

\* the card screen was reset while the word of its card was still being recorded
C30_Witness ==
    /\ appEvent.op = "handleReset"
    /\ \E i \in 1..Len(net) : net[i].endpoint = "learn"
    /\ app.step = 1
    /\ app.word = ""
    /\ app.learningCard = "null"

-----------------------------------------------------------------------------
(* Properties of the save dialog *)

\* C26: when the list of the open dialog is refreshed and holds, for the first
\* time, the collection just created from the dialog, that collection is the
\* selected save target; and creating a collection saves no card and sends no
\* save request.
C26_NewCollectionSelected ==
    [][ /\ (/\ appEvent'.op = "cardProfileSettled"
            /\ saveDialog'.open
            /\ backend.created # ""
            /\ ~backend.listed
            /\ backend'.listed)
            => saveDialog'.selectedCollectionId = backend.created
        /\ appEvent'.op = "createSettled"
            => /\ backend'.saved = backend.saved
               /\ \A k \in 1..Len(net') : net'[k].endpoint # "saveLearningCard"
                        \/ \E j \in 1..Len(net) : net[j] = net'[k] ]_vars

-----------------------------------------------------------------------------
(* Properties of the question-based review session *)

\* C27: in EnhancedReviewSession a rating is submitted for a card only while
\* the question on the screen is the one that was loaded for that card, so
\* that the question type sent with the rating is the card's own.
C27_RatedOnOwnQuestion ==
    (rvEvent.op = "handleRating" /\ review.component = "EnhancedReviewSession")
        => review.currentQuestion.card = rvEvent.card

\* C29: while a session shows its cards (it is not loading and the list is not
\* empty), the current index is inside the list.
C29_CurrentCardExists ==
    FlashcardUI(review) => (0 <= review.currentIndex /\ review.currentIndex < Len(review.cards))
====
